---- MODULE Spec2Model ----
(***************************************************************************)
(* Model of the air-quality monitor firmware, aq_monitor/aq_monitor.ino:   *)
(* the polling loop() with its two timers, the running sums, the three     *)
(* sensor readers as seen by the loop, the gas-index algorithm object and  *)
(* the transmission client sendDataToCloudflare.                           *)
(*                                                                         *)
(* One execution of loop() is split at its blocking calls; pc is the       *)
(* position of the single thread of control:                               *)
(*   "loop"  : about to enter loop() and read millis()                     *)
(*   "sht31" : short tick, about to call readSHT31                         *)
(*   "sgp40" : short tick, about to call readSGP40                         *)
(*   "pms"   : short tick, about to call readPMSFrame                      *)
(*   "avg"   : about to test the long-tick timer                           *)
(*   "send"  : long tick, means computed, about to call the client         *)
(*   "reset" : long tick, the client has returned, about to reset          *)
(*                                                                         *)
(* Numbers: times are milliseconds; temperatures and humidities are        *)
(* float values that happen to be whole numbers, so their float sums are   *)
(* exact; a float quotient is kept as the exact fraction [num, den].       *)
(* Integer variables keep the width the firmware declares for them: a      *)
(* 16-bit variable is reduced modulo 2^16; an unsigned long (32 bits) is   *)
(* the record [hi, lo] of its two 16-bit halves, with addition and         *)
(* subtraction modulo 2^32.  The 32-bit sums are plain integers: the       *)
(* model checker's own integers are 32 bits wide and it stops with an      *)
(* overflow error should one of them leave the int32_t range.              *)
(***************************************************************************)
EXTENDS Integers, Naturals, Sequences, FiniteSets, TLC

(* ---------------------------------------------------------------- bounds *)

\* The clock is not advanced past this value (milliseconds since boot).
MaxMillis == 130000

\* Samples after which the state of the VOC algorithm is no longer told
\* apart.
MaxAlgoSamples == 12

\* Longest byte array given to crc8 on its own, beyond the 2-byte words.
MaxCrcLen == 4

\* In how many pieces at most a finite byte stream reaches the receive buffer.
MaxArrivals == 3

\* Frames the particulate sensor sends in the run that numbers them.
MaxFrames == 4

\* How many bytes the receive buffer holds while the sensor streams frames.
MaxBuffered == 96

(* ----------------------------------------------------- program constants *)

SAMPLE_INTERVAL == 5000

AVERAGE_INTERVAL == 60000

\* uint16_t, and one half of an unsigned long
U16Mod == 2 ^ 16

\* uint8_t
U8Mod == 2 ^ 8

\* const uint8_t HEADER_H = 0x42
HEADER_H == 66

\* const uint8_t HEADER_L = 0x4D
HEADER_L == 77

\* const uint8_t FRAME_LEN_BYTES = 32
FRAME_LEN_BYTES == 32

\* crc8: uint8_t crc = 0xFF
CRC8_INIT == 255

\* crc8: (crc << 1) ^ 0x31
CRC8_POLY == 49

\* crc8: crc & 0x80
CRC8_TOPBIT == 128

(* ------------------------------------------------------ input value sets *)

\* Time that passes between two reads of millis() at the top of loop():
\* 0 when loop() is re-entered within the same millisecond, more when the
\* previous iteration blocked in sensor delays or in the HTTP POST.
Deltas == {0, 30000, 60000}

\* What a successful readSHT31 can fill in.
SHT31Readings ==
    { [temperatureF |-> 70, humidityRH |-> 40],
      [temperatureF |-> 74, humidityRH |-> 45] }

\* What a successful readSGP40 can fill in (raw 16-bit ticks).
RawVocValues == {20000, 40000}

\* What voc_algorithm.process can return.
VocIndexValues == {100, 101}

\* What a successful readPMSFrame can fill in.
PMSReadings == { [pm1_0 |-> 5, pm2_5 |-> 8, pm10 |-> 11] }

\* The locals r and voc are declared without initialiser; when the reader
\* fails they hold an indeterminate value: what an earlier tick left in the
\* stack slot, or anything else.
IndeterminateReadings ==
    SHT31Readings \cup { [temperatureF |-> 0, humidityRH |-> 0] }

IndeterminateTicks == RawVocValues \cup {65535}

\* r and voc outside the short tick's block, where they do not exist: a
\* value no reader produces.
NoReading == [temperatureF |-> -1, humidityRH |-> -1]

NoTicks == -1

WiFiStatuses == {"WL_CONNECTED", "WL_DISCONNECTED"}

\* http.POST returns the HTTP status, or a negative client error code.
HttpResponseCodes == {200, 400, -1}

(* ---------------------------------------------------------------- state *)

VARIABLES
    pc,               \* position of the thread of control in loop()
    currentMillis,    \* millis() as read at the top of the iteration
    lastSampleTime,
    lastAverageTime,
    tempSum,
    humiditySum,
    vocIndexSum,
    rawVocSum,
    pm1_0Sum,
    pm2_5Sum,
    pm10Sum,
    sampleCount,
    r,                \* the local SHT31Reading r of the short tick
    rFilled,          \* readSHT31 returned true in the current short tick
    voc,              \* the local uint16_t voc of the short tick
    vocFilled,        \* readSGP40 returned true in the current short tick
    voc_algorithm,    \* state of the gas-index algorithm object
    processCalls,     \* calls of voc_algorithm.process in the short tick
    sgp40Env,         \* compensation input given to readSGP40 in the tick
    wifiStatus,       \* what WiFi.status() returned to the client
    avg,              \* arguments of this iteration's client call
    httpResponseCode, \* result of this iteration's POST
    posted,           \* POST bodies issued in this iteration
    win,              \* history: what was read since the last reset
    lastOutcome,      \* history: outcome of the previous client call
    pmsSerial,        \* bytes buffered by the UART of the particulate sensor
    pmsSensor,        \* what the particulate sensor has still to emit
    pmsRet,           \* what the latest call of readPMSFrame returned
    pmsHist,          \* history of the calls of readPMSFrame
    arg,              \* argument of the helper function under evaluation
    ret,              \* what that helper function returned
    cadence,          \* history: time since each timer fired, and whether
                      \* it fired in this iteration
    db,               \* rows of the table sensor_data of the ingestion worker
    serverNow,        \* the date new Date() gives the ingestion worker
    request,          \* the request a worker was last invoked with
    response          \* what that worker answered

sums == <<tempSum, humiditySum, vocIndexSum, rawVocSum,
          pm1_0Sum, pm2_5Sum, pm10Sum, sampleCount>>

timers == <<currentMillis, lastSampleTime, lastAverageTime>>

locals == <<r, rFilled, voc, vocFilled, sgp40Env>>

\* The variables of loop() and of the client.
scheduler == <<pc, currentMillis, lastSampleTime, lastAverageTime,
               tempSum, humiditySum, vocIndexSum, rawVocSum,
               pm1_0Sum, pm2_5Sum, pm10Sum, sampleCount,
               r, rFilled, voc, vocFilled, voc_algorithm, processCalls,
               sgp40Env, wifiStatus, avg, httpResponseCode, posted, win,
               lastOutcome, cadence>>

\* The variables of the particulate decoder taken on its own.
decoder == <<pmsSerial, pmsSensor, pmsRet, pmsHist>>

\* The variables of a helper function taken on its own.
helper == <<arg, ret>>

\* The variables of the workers on the server side.
server == <<db, serverNow, request, response>>

vars == <<scheduler, decoder, helper, server>>

NoAvg == [called |-> FALSE]

NoEnv == [called |-> FALSE]

NoResponse == 0

\* Neither timer has fired, no time has passed.
NoTicksYet ==
    [short |-> 0, shortFired |-> FALSE, long |-> 0, longFired |-> FALSE]

EmptyWindow ==
    [ n |-> 0, th |-> 0, gas |-> 0, pm |-> 0,
      temps |-> {},
      temp |-> 0, hum |-> 0, vocIndex |-> 0, rawVoc |-> 0,
      pm1_0 |-> 0, pm2_5 |-> 0, pm10 |-> 0 ]

(* ------------------------------------------------------------ arithmetic *)

\* The unsigned long holding the number v, 0 <= v < 2^31.
ULong(v) == [hi |-> v \div U16Mod, lo |-> v % U16Mod]

\* a + d in unsigned long arithmetic, for a number d, 0 <= d < 2^31.
ULongAdd(a, d) ==
    LET l == a.lo + (d % U16Mod)
        h == a.hi + (d \div U16Mod) + (l \div U16Mod)
    IN  [hi |-> h % U16Mod, lo |-> l % U16Mod]

\* A difference that is 0 when a is below b instead of wrapping.
ULongSub_Saturating(a, b) ==
    LET l == a.lo - b.lo
        h == a.hi - b.hi - (IF l < 0 THEN 1 ELSE 0)
    IN  IF h < 0 THEN [hi |-> 0, lo |-> 0]
        ELSE [hi |-> h, lo |-> l % U16Mod]

\* a - b in unsigned long arithmetic (modulo 2^32).
ULongSub(a, b) ==
    LET l == a.lo - b.lo
        h == a.hi - b.hi - (IF l < 0 THEN 1 ELSE 0)
    IN  [hi |-> h % U16Mod, lo |-> l % U16Mod]

\* a >= k for an unsigned long a and a number k, 0 <= k < 2^31.
ULongGE(a, k) ==
    \/ a.hi > k \div U16Mod
    \/ a.hi = k \div U16Mod /\ a.lo >= k % U16Mod

\* C integer division (truncation toward zero), divisor > 0.
CDiv(a, b) == IF a >= 0 THEN a \div b ELSE -((-a) \div b)

\* A float quotient a / b, kept exact.
FloatDiv(a, b) == [num |-> a, den |-> b]

\* String(x, 2): a non-negative float printed with two decimals, as the
\* number of hundredths.
String2(q) == (q.num * 200 + q.den) \div (2 * q.den)

(* ----------------------------------------------------------------- crc8 *)

\* a ^ b on the low n bits.
Xor(a, b, n) ==
    LET RECURSIVE X(_, _, _)
        X(x, y, k) ==
            IF k = 0 THEN 0
            ELSE (((x % 2) + (y % 2)) % 2) + 2 * X(x \div 2, y \div 2, k - 1)
    IN  X(a, b, n)

\* crc = (crc & 0x80) ? (crc << 1) ^ 0x31 : (crc << 1), stored in a uint8_t
Crc8Shift(crc) ==
    IF crc >= CRC8_TOPBIT
       THEN Xor((crc * 2) % U8Mod, CRC8_POLY, 8)
       ELSE (crc * 2) % U8Mod

\* crc ^= data[i], then the eight shifts of the inner loop
Crc8Byte(crc, byte) ==
    LET RECURSIVE Shifts(_, _)
        Shifts(c, b) == IF b = 0 THEN c ELSE Shifts(Crc8Shift(c), b - 1)
    IN  Shifts(Xor(crc, byte, 8), 8)

\* A crc8 that starts from 0 instead of 0xFF.
crc8_InitZero(data, len) ==
    LET RECURSIVE Loop(_, _)
        Loop(crc, i) ==
            IF i > len THEN crc ELSE Loop(Crc8Byte(crc, data[i]), i + 1)
    IN  Loop(0, 1)

\* static uint8_t crc8(const uint8_t *data, int len); data[1..len] here
crc8(data, len) ==
    LET RECURSIVE Loop(_, _)
        Loop(crc, i) ==
            IF i > len THEN crc ELSE Loop(Crc8Byte(crc, data[i]), i + 1)
    IN  Loop(CRC8_INIT, 1)

(* ------------------------------------------------------------ readSHT31 *)

\* A conversion that divides the raw words by 65536 instead of 65535.
SHT31Convert_Divides65536(raw) ==
    LET rawT  == raw[1] * U8Mod + raw[2]
        rawRH == raw[4] * U8Mod + raw[5]
    IN  [ temperatureF |-> [num |-> 315 * rawT - 49 * 65536, den |-> 65536],
          humidityRH   |-> [num |-> 100 * rawRH, den |-> 65536] ]

\* The conversion of readSHT31, kept exact: the floats are the fractions
\* temperatureF = (315 * rawT - 49 * 65535) / 65535  (-45 + 175 * rawT / 65535
\* in Celsius, then * 9 / 5 + 32) and humidityRH = 100 * rawRH / 65535.
SHT31Convert(raw) ==
    LET rawT  == raw[1] * U8Mod + raw[2]
        rawRH == raw[4] * U8Mod + raw[5]
    IN  [ temperatureF |-> [num |-> 315 * rawT - 49 * 65535, den |-> 65535],
          humidityRH   |-> [num |-> 100 * rawRH, den |-> 65535] ]

\* A readSHT31 that does not check the CRC of the humidity word.
readSHT31_SkipsHumidityCrc(bus) ==
    IF bus.endTransmission # 0 THEN [ok |-> FALSE, out |-> << >>]
    ELSE IF bus.count # 6 THEN [ok |-> FALSE, out |-> << >>]
    ELSE IF crc8(bus.raw, 2) # bus.raw[3] THEN [ok |-> FALSE, out |-> << >>]
    ELSE [ok |-> TRUE, out |-> <<SHT31Convert(bus.raw)>>]

\* bool readSHT31(SHT31Reading &out): bus is what the I2C transaction gives
\* (the result of endTransmission, the count requestFrom returns, the bytes
\* read); out is written only on success.
readSHT31(bus) ==
    IF bus.endTransmission # 0 THEN [ok |-> FALSE, out |-> << >>]
    ELSE IF bus.count # 6 THEN [ok |-> FALSE, out |-> << >>]
    ELSE IF crc8(bus.raw, 2) # bus.raw[3] THEN [ok |-> FALSE, out |-> << >>]
    ELSE IF crc8(SubSeq(bus.raw, 4, 6), 2) # bus.raw[6]
         THEN [ok |-> FALSE, out |-> << >>]
    ELSE [ok |-> TRUE, out |-> <<SHT31Convert(bus.raw)>>]

(* ------------------------------------------------- humToTicks, tempToTicks *)

\* The float arguments are carried in tenths (rh = 1000 is 100 %RH, tc = -450
\* is -45 C) and the arithmetic is exact: uint16_t(x + 0.5f) of a
\* non-negative x is the floor of x + 1/2.

\* A humToTicks without the upper clamp.
humToTicks_NoUpperClamp(rh) ==
    LET c == IF rh < 0 THEN 0 ELSE rh
    IN  (2 * c * 65535 + 1000) \div 2000

\* static uint16_t humToTicks(float rh)
humToTicks(rh) ==
    LET lo == IF rh < 0 THEN 0 ELSE rh
        c  == IF lo > 1000 THEN 1000 ELSE lo
    IN  (2 * c * 65535 + 1000) \div 2000

\* static uint16_t tempToTicks(float tc)
tempToTicks(tc) ==
    LET lo == IF tc < -450 THEN -450 ELSE tc
        c  == IF lo > 1300 THEN 1300 ELSE lo
    IN  (2 * (c + 450) * 65535 + 1750) \div 3500

\* What a call can return: for a NaN argument neither clamp applies (every
\* comparison is false) and the conversion of NaN to uint16_t is undefined,
\* so any uint16_t can come out.
TicksOutcomes(x, ticks) ==
    IF x.nan THEN 0..(U16Mod - 1) ELSE {ticks}

(* ------------------------------------------------------------ readSGP40 *)

\* humToTicks and tempToTicks on an exact fraction [num, den] whose
\* denominator is a multiple m of 65535, as the values readSHT31 produces
\* are: rh * 65535 / 100 + 1/2 = (2 * num + 100 * m) / (200 * m), and
\* (tc + 45) * 65535 / 175 + 1/2 = (2 * (num + 45 * den) + 175 * m) / (350 * m).
humToTicksExact(rh) ==
    LET m  == rh.den \div 65535
        lo == IF rh.num < 0 THEN 0 ELSE rh.num
        c  == IF lo > 100 * rh.den THEN 100 * rh.den ELSE lo
    IN  (2 * c + 100 * m) \div (200 * m)

tempToTicksExact(tc) ==
    LET m  == tc.den \div 65535
        lo == IF tc.num < -45 * tc.den THEN -45 * tc.den ELSE tc.num
        c  == IF lo > 130 * tc.den THEN 130 * tc.den ELSE lo
    IN  (2 * (c + 45 * tc.den) + 175 * m) \div (350 * m)

\* A conversion to Celsius that leaves out the offset of 32.
CelsiusOf_NoOffset(f) == [num |-> f.num * 5, den |-> 9 * f.den]

\* (env.temperatureF - 32.0f) * 5.0f / 9.0f
CelsiusOf(f) == [num |-> (f.num - 32 * f.den) * 5, den |-> 9 * f.den]

\* static uint8_t crc8_pair(uint8_t msb, uint8_t lsb)
crc8_pair(msb, lsb) == crc8(<<msb, lsb>>, 2)

\* A frame whose temperature word is sent low byte first.
SGP40Frame_TempLittleEndian(h, t) ==
    << 38, 15,
       h \div U8Mod, h % U8Mod, crc8_pair(h \div U8Mod, h % U8Mod),
       t % U8Mod, t \div U8Mod, crc8_pair(t \div U8Mod, t % U8Mod) >>

\* uint8_t frame[8]: the command 0x26 0x0F, then each compensation word
\* with its CRC.
SGP40Frame(h, t) ==
    << 38, 15,
       h \div U8Mod, h % U8Mod, crc8_pair(h \div U8Mod, h % U8Mod),
       t \div U8Mod, t % U8Mod, crc8_pair(t \div U8Mod, t % U8Mod) >>

\* The compensation words readSGP40 can compute from env: for a NaN the
\* conversion to uint16_t is undefined and any word can come out, of which
\* the words of SHT31Words are taken.
CompensationWords(env, words) ==
    IF env.nan THEN { [h |-> h, t |-> t] : h \in words, t \in words }
    ELSE { [ h |-> humToTicksExact(env.humidityRH),
             t |-> tempToTicksExact(CelsiusOf(env.temperatureF)) ] }

\* bool readSGP40(const SHT31Reading &env, uint16_t &vocTicks), with the
\* compensation words w already computed: the frame written, the result,
\* and vocTicks, written only on success.  bus is what the I2C transaction
\* gives.
readSGP40(w, bus) ==
    LET frame == SGP40Frame(w.h, w.t)
        fail  == [ok |-> FALSE, frame |-> frame, vocTicks |-> << >>]
    IN  IF bus.endTransmission # 0 THEN fail
        ELSE IF bus.count # 3 THEN fail
        ELSE IF crc8(bus.res, 2) # bus.res[3] THEN fail
        ELSE [ ok |-> TRUE, frame |-> frame,
               vocTicks |-> << bus.res[1] * U8Mod + bus.res[2] >> ]

(* --------------------------------------------------------- readPMSFrame *)

\* The while loop of readPMSFrame over the receive buffer: bytes are read
\* and dropped until HEADER_H HEADER_L has been read, or fewer than two
\* bytes are left.
ScanHeader(buf) ==
    LET RECURSIVE Scan(_)
        Scan(b) ==
            IF Len(b) < 2 THEN [found |-> FALSE, rest |-> b]
            ELSE IF b[1] = HEADER_H /\ b[2] = HEADER_L
                 THEN [found |-> TRUE, rest |-> SubSeq(b, 3, Len(b))]
            ELSE Scan(Tail(b))
    IN  Scan(buf)

\* The number of times the body of while (pmsSerial.available() >= 2) runs.
ScanIterations(buf) ==
    LET RECURSIVE Iter(_)
        Iter(b) ==
            IF Len(b) < 2 THEN 0
            ELSE IF b[1] = HEADER_H /\ b[2] = HEADER_L THEN 1
            ELSE 1 + Iter(Tail(b))
    IN  Iter(buf)

\* sum += buffer[i] over the bytes of a sequence
SumBytes(bytes) ==
    LET RECURSIVE Sum(_)
        Sum(k) == IF k = 0 THEN 0 ELSE bytes[k] + Sum(k - 1)
    IN  Sum(Len(bytes))

\* A length check that lets every declared length through.
PMSLengthOk_Any(buffer) == TRUE

\* uint16_t frameLen = (buffer[0] << 8) | buffer[1]; frameLen == 28
PMSLengthOk(buffer) == buffer[1] * U8Mod + buffer[2] = 28

\* A checksum check that compares the low byte only.
PMSChecksumOk_LowByteOnly(buffer) ==
    (HEADER_H + HEADER_L + SumBytes(SubSeq(buffer, 1, 28))) % U8Mod = buffer[30]

\* uint16_t sum = HEADER_H + HEADER_L + buffer[0..27];
\* reported = (buffer[28] << 8) | buffer[29]; sum == reported
PMSChecksumOk(buffer) ==
    (HEADER_H + HEADER_L + SumBytes(SubSeq(buffer, 1, 28))) % U16Mod
        = buffer[29] * U8Mod + buffer[30]

\* An extraction that takes the standard-particle words, buffer[2..7].
PMSExtract_StandardWords(buffer) ==
    [ pm1_0 |-> buffer[3] * U8Mod + buffer[4],
      pm2_5 |-> buffer[5] * U8Mod + buffer[6],
      pm10  |-> buffer[7] * U8Mod + buffer[8] ]

\* out.pm1_0, out.pm2_5, out.pm10 from buffer[8..13]
PMSExtract(buffer) ==
    [ pm1_0 |-> buffer[9] * U8Mod + buffer[10],
      pm2_5 |-> buffer[11] * U8Mod + buffer[12],
      pm10  |-> buffer[13] * U8Mod + buffer[14] ]

\* A decoder that first drops all but the last FRAME_LEN_BYTES bytes of the
\* receive buffer, so that it reads the newest frame.
readPMSFrame_NewestFrame(buf) ==
    LET kept == IF Len(buf) > FRAME_LEN_BYTES
                   THEN SubSeq(buf, Len(buf) - FRAME_LEN_BYTES + 1, Len(buf))
                   ELSE buf
        s == ScanHeader(kept)
        n == FRAME_LEN_BYTES - 2
    IN  IF Len(s.rest) < n
           THEN [ ok |-> FALSE, out |-> << >>, rest |-> s.rest,
                  why |-> IF s.found THEN "short" ELSE "noheader" ]
        ELSE LET buffer == SubSeq(s.rest, 1, n)
                 rest   == SubSeq(s.rest, n + 1, Len(s.rest))
             IN  IF ~PMSLengthOk(buffer)
                    THEN [ok |-> FALSE, out |-> << >>, rest |-> rest, why |-> "length"]
                 ELSE IF ~PMSChecksumOk(buffer)
                    THEN [ok |-> FALSE, out |-> << >>, rest |-> rest, why |-> "checksum"]
                 ELSE [ ok |-> TRUE, out |-> <<PMSExtract(buffer)>>, rest |-> rest,
                        why |-> "ok" ]

\* A decoder that empties the receive buffer when the length is wrong.
readPMSFrame_FlushesOnBadLength(buf) ==
    LET s == ScanHeader(buf)
        n == FRAME_LEN_BYTES - 2
    IN  IF Len(s.rest) < n
           THEN [ ok |-> FALSE, out |-> << >>, rest |-> s.rest,
                  why |-> IF s.found THEN "short" ELSE "noheader" ]
        ELSE LET buffer == SubSeq(s.rest, 1, n)
                 rest   == SubSeq(s.rest, n + 1, Len(s.rest))
             IN  IF ~PMSLengthOk(buffer)
                    THEN [ok |-> FALSE, out |-> << >>, rest |-> << >>, why |-> "length"]
                 ELSE IF ~PMSChecksumOk(buffer)
                    THEN [ok |-> FALSE, out |-> << >>, rest |-> rest, why |-> "checksum"]
                 ELSE [ ok |-> TRUE, out |-> <<PMSExtract(buffer)>>, rest |-> rest,
                        why |-> "ok" ]

\* bool readPMSFrame(PMSData &out) on the receive buffer buf: what it
\* returns, what it writes to out, what it leaves in the buffer, and the
\* return statement it left by.
readPMSFrame(buf) ==
    LET s == ScanHeader(buf)
        n == FRAME_LEN_BYTES - 2
    IN  IF Len(s.rest) < n
           THEN [ ok |-> FALSE, out |-> << >>, rest |-> s.rest,
                  why |-> IF s.found THEN "short" ELSE "noheader" ]
        ELSE LET buffer == SubSeq(s.rest, 1, n)
                 rest   == SubSeq(s.rest, n + 1, Len(s.rest))
             IN  IF ~PMSLengthOk(buffer)
                    THEN [ok |-> FALSE, out |-> << >>, rest |-> rest, why |-> "length"]
                 ELSE IF ~PMSChecksumOk(buffer)
                    THEN [ok |-> FALSE, out |-> << >>, rest |-> rest, why |-> "checksum"]
                 ELSE [ ok |-> TRUE, out |-> <<PMSExtract(buffer)>>, rest |-> rest,
                        why |-> "ok" ]

(* ---------------------------------------------------------------- timers *)

\* The short-tick test with > for >=.
ShortTickDue_Strict(cm) ==
    ULongGE(ULongSub(cm, lastSampleTime), SAMPLE_INTERVAL + 1)

\* loop(): if (currentMillis - lastSampleTime >= SAMPLE_INTERVAL)
ShortTickDue(cm) == ULongGE(ULongSub(cm, lastSampleTime), SAMPLE_INTERVAL)

\* loop(): if (currentMillis - lastAverageTime >= AVERAGE_INTERVAL)
LongTickDue(cm) == ULongGE(ULongSub(cm, lastAverageTime), AVERAGE_INTERVAL)

(* ------------------------------------------------------------------ Init *)

\* The globals as initialised, after setup() has returned: setup() spins
\* until WiFi.status() is WL_CONNECTED.
SchedulerInit ==
    /\ pc = "loop"
    /\ currentMillis = ULong(0)
    /\ lastSampleTime = ULong(0)
    /\ lastAverageTime = ULong(0)
    /\ tempSum = 0
    /\ humiditySum = 0
    /\ vocIndexSum = 0
    /\ rawVocSum = 0
    /\ pm1_0Sum = 0
    /\ pm2_5Sum = 0
    /\ pm10Sum = 0
    /\ sampleCount = 0
    /\ r = NoReading
    /\ rFilled = FALSE
    /\ voc = NoTicks
    /\ vocFilled = FALSE
    /\ voc_algorithm = [samples |-> 0]
    /\ processCalls = << >>
    /\ sgp40Env = NoEnv
    /\ wifiStatus = "unread"
    /\ avg = NoAvg
    /\ httpResponseCode = NoResponse
    /\ posted = << >>
    /\ win = EmptyWindow
    /\ lastOutcome = "none"
    /\ cadence = NoTicksYet

\* The decoder and the helper functions when they are not looked into.
DecoderIdle ==
    /\ pmsSerial = << >>
    /\ pmsSensor = << >>
    /\ pmsRet = << >>
    /\ pmsHist = << >>

HelperIdle ==
    /\ arg = << >>
    /\ ret = << >>

\* The server side when it is not looked into.
ServerIdle ==
    /\ db = << >>
    /\ serverNow = << >>
    /\ request = << >>
    /\ response = << >>

Init ==
    /\ SchedulerInit
    /\ ServerIdle
    /\ DecoderIdle
    /\ HelperIdle

(* ------------------------------------------------------------ loop entry *)

\* loop() is entered d milliseconds after it was entered the last time:
\* millis() is read and the short-tick timer is tested.  The history keeps,
\* for each timer, the time that has passed since the iteration in which it
\* fired last, and whether the short tick fires in this one.
LoopEnter(d) ==
    LET cm == ULongAdd(currentMillis, d)
    IN  /\ currentMillis' = cm
        /\ IF ShortTickDue(cm)
              THEN /\ lastSampleTime' = cm
                   /\ pc' = "sht31"
              ELSE /\ lastSampleTime' = lastSampleTime
                   /\ pc' = "avg"
        /\ cadence' =
              [ short      |-> (IF cadence.shortFired THEN 0 ELSE cadence.short) + d,
                shortFired |-> (pc' = "sht31"),
                long       |-> (IF cadence.longFired THEN 0 ELSE cadence.long) + d,
                longFired  |-> FALSE ]
        /\ UNCHANGED <<lastAverageTime, sums, locals, voc_algorithm,
                       processCalls, wifiStatus, avg, httpResponseCode,
                       posted, win, lastOutcome>>

LoopStart ==
    /\ pc = "loop"
    /\ UNCHANGED <<decoder, helper, server>>
    /\ \E d \in Deltas :
          /\ ~ULongGE(ULongAdd(currentMillis, d), MaxMillis + 1)
          /\ LoopEnter(d)

(* ------------------------------------------------------------ short tick *)

\* if (readSHT31(r)) { tempSum += r.temperatureF; humiditySum += r.humidityRH; }
AccumulateSHT31(reading) ==
    /\ tempSum' = tempSum + reading.temperatureF
    /\ humiditySum' = humiditySum + reading.humidityRH

\* A short tick that ignores the result of readSHT31 and adds r anyway.
ShortTickSHT31_AddsUnfilledReading ==
    /\ pc = "sht31"
    /\ UNCHANGED <<decoder, helper, server>>
    /\ \/ \E reading \in SHT31Readings :
             /\ r' = reading
             /\ rFilled' = TRUE
             /\ AccumulateSHT31(reading)
             /\ win' = [win EXCEPT !.th = @ + 1,
                                   !.temps = @ \cup {reading.temperatureF},
                                   !.temp = @ + reading.temperatureF,
                                   !.hum = @ + reading.humidityRH]
       \/ \E slot \in IndeterminateReadings :
             /\ r' = slot
             /\ rFilled' = FALSE
             /\ AccumulateSHT31(slot)
             /\ UNCHANGED win
    /\ pc' = "sgp40"
    /\ UNCHANGED <<timers, vocIndexSum, rawVocSum, pm1_0Sum, pm2_5Sum, pm10Sum,
                   sampleCount, voc, vocFilled, voc_algorithm, processCalls,
                   sgp40Env, wifiStatus, avg, httpResponseCode, posted,
                   lastOutcome, cadence>>

ShortTickSHT31 ==
    /\ pc = "sht31"
    /\ UNCHANGED <<decoder, helper, server>>
    /\ \/ \E reading \in SHT31Readings :
             /\ r' = reading
             /\ rFilled' = TRUE
             /\ AccumulateSHT31(reading)
             /\ win' = [win EXCEPT !.th = @ + 1,
                                   !.temps = @ \cup {reading.temperatureF},
                                   !.temp = @ + reading.temperatureF,
                                   !.hum = @ + reading.humidityRH]
       \/ \E slot \in IndeterminateReadings :
             \* readSHT31 returned false and wrote nothing to r
             /\ r' = slot
             /\ rFilled' = FALSE
             /\ UNCHANGED <<tempSum, humiditySum, win>>
    /\ pc' = "sgp40"
    /\ UNCHANGED <<timers, vocIndexSum, rawVocSum, pm1_0Sum, pm2_5Sum, pm10Sum,
                   sampleCount, voc, vocFilled, voc_algorithm, processCalls,
                   sgp40Env, wifiStatus, avg, httpResponseCode, posted,
                   lastOutcome, cadence>>

\* voc_algorithm.process(raw): the algorithm object consumes one sample.  Its
\* state is told apart by the number of samples it has consumed, up to
\* MaxAlgoSamples.
Process(state, raw) ==
    [samples |-> IF state.samples < MaxAlgoSamples
                   THEN state.samples + 1
                   ELSE state.samples]

\* vocIndexSum += voc_index; rawVocSum += voc;
AccumulateSGP40(ticks, voc_index) ==
    /\ vocIndexSum' = vocIndexSum + voc_index
    /\ rawVocSum' = (rawVocSum + ticks) % U16Mod

ShortTickSGP40 ==
    /\ pc = "sgp40"
    /\ UNCHANGED <<decoder, helper, server>>
    /\ sgp40Env' = [called |-> TRUE, temperatureF |-> r.temperatureF,
                    humidityRH |-> r.humidityRH, fromRead |-> rFilled]
    /\ \/ \E ticks \in RawVocValues, voc_index \in VocIndexValues :
             /\ voc' = ticks
             /\ vocFilled' = TRUE
             /\ voc_algorithm' = Process(voc_algorithm, ticks)
             /\ processCalls' = Append(processCalls,
                                       [arg |-> ticks, read |-> TRUE,
                                        site |-> "accumulate"])
             /\ AccumulateSGP40(ticks, voc_index)
             /\ win' = [win EXCEPT !.gas = @ + 1,
                                   !.vocIndex = @ + voc_index,
                                   !.rawVoc = @ + ticks]
       \/ \E slot \in IndeterminateTicks :
             \* readSGP40 returned false and wrote nothing to voc
             /\ voc' = slot
             /\ vocFilled' = FALSE
             /\ UNCHANGED <<voc_algorithm, processCalls, vocIndexSum,
                            rawVocSum, win>>
    /\ pc' = "pms"
    /\ UNCHANGED <<timers, tempSum, humiditySum, pm1_0Sum, pm2_5Sum, pm10Sum,
                   sampleCount, r, rFilled, wifiStatus, avg, httpResponseCode,
                   posted, lastOutcome, cadence>>

\* A particulate accumulation that is skipped when readSHT31 failed.
AccumulatePMS_OnlyWithReading(d) ==
    IF rFilled
       THEN /\ pm1_0Sum' = pm1_0Sum + d.pm1_0
            /\ pm2_5Sum' = pm2_5Sum + d.pm2_5
            /\ pm10Sum' = pm10Sum + d.pm10
       ELSE UNCHANGED <<pm1_0Sum, pm2_5Sum, pm10Sum>>

\* pm1_0Sum += d.pm1_0; pm2_5Sum += d.pm2_5; pm10Sum += d.pm10;
AccumulatePMS(d) ==
    /\ pm1_0Sum' = pm1_0Sum + d.pm1_0
    /\ pm2_5Sum' = pm2_5Sum + d.pm2_5
    /\ pm10Sum' = pm10Sum + d.pm10

\* A counter that counts the ticks in which readSGP40 succeeded.
CountSample_OnlyWhenGasRead ==
    sampleCount' = IF vocFilled THEN sampleCount + 1 ELSE sampleCount

\* sampleCount++;
CountSample == sampleCount' = sampleCount + 1

ShortTickPMS ==
    /\ pc = "pms"
    /\ UNCHANGED <<decoder, helper, server>>
    /\ \/ \E d \in PMSReadings :
             /\ AccumulatePMS(d)
             \* the Serial.printf of the current readings evaluates
             \* voc_algorithm.process(voc) once more
             /\ voc_algorithm' = Process(voc_algorithm, voc)
             /\ processCalls' = Append(processCalls,
                                       [arg |-> voc, read |-> vocFilled,
                                        site |-> "printf"])
             /\ win' = [win EXCEPT !.n = @ + 1,
                                   !.pm = @ + 1,
                                   !.pm1_0 = @ + d.pm1_0,
                                   !.pm2_5 = @ + d.pm2_5,
                                   !.pm10 = @ + d.pm10]
       \/ /\ UNCHANGED <<pm1_0Sum, pm2_5Sum, pm10Sum, voc_algorithm,
                         processCalls>>
          /\ win' = [win EXCEPT !.n = @ + 1]
    /\ CountSample
    \* the block of the short tick ends: r and voc are gone
    /\ r' = NoReading
    /\ voc' = NoTicks
    /\ pc' = "avg"
    /\ UNCHANGED <<timers, tempSum, humiditySum, vocIndexSum, rawVocSum,
                   rFilled, vocFilled, sgp40Env, wifiStatus, avg,
                   httpResponseCode, posted, lastOutcome, cadence>>

(* ------------------------------------------------------------- long tick *)

\* Means taken before the sample count of the current short tick is added.
Means_BeforeCount ==
    [ called      |-> TRUE,
      avgTemp     |-> FloatDiv(tempSum, sampleCount - 1),
      avgHumidity |-> FloatDiv(humiditySum, sampleCount - 1),
      avgVocIndex |-> CDiv(vocIndexSum, sampleCount),
      avgRawVoc   |-> (rawVocSum \div sampleCount) % U16Mod,
      avgPM1_0    |-> (pm1_0Sum \div sampleCount) % U16Mod,
      avgPM2_5    |-> (pm2_5Sum \div sampleCount) % U16Mod,
      avgPM10     |-> (pm10Sum \div sampleCount) % U16Mod,
      sampleCount |-> sampleCount - 1 ]

\* The means computed from the running sums, as passed to the client.
\* avgRawVoc and the three PM means are stored in uint16_t locals.
Means ==
    [ called      |-> TRUE,
      avgTemp     |-> FloatDiv(tempSum, sampleCount),
      avgHumidity |-> FloatDiv(humiditySum, sampleCount),
      avgVocIndex |-> CDiv(vocIndexSum, sampleCount),
      avgRawVoc   |-> (rawVocSum \div sampleCount) % U16Mod,
      avgPM1_0    |-> (pm1_0Sum \div sampleCount) % U16Mod,
      avgPM2_5    |-> (pm2_5Sum \div sampleCount) % U16Mod,
      avgPM10     |-> (pm10Sum \div sampleCount) % U16Mod,
      sampleCount |-> sampleCount ]

\* if (sampleCount > 0)
HasSamples == sampleCount > 0

\* The long-tick timer is tested.  When it is due and there are samples the
\* means are computed and the client is about to be called; when it is due
\* without samples only lastAverageTime is set.
LongTick ==
    /\ pc = "avg"
    /\ UNCHANGED <<decoder, helper, server>>
    /\ IF LongTickDue(currentMillis)
          THEN /\ cadence' = [cadence EXCEPT !.longFired = TRUE]
               /\ IF HasSamples
                     THEN /\ avg' = Means
                          /\ pc' = "send"
                          /\ UNCHANGED lastAverageTime
                     ELSE /\ lastAverageTime' = currentMillis
                          /\ pc' = "loop"
                          /\ UNCHANGED avg
          ELSE /\ pc' = "loop"
               /\ UNCHANGED <<lastAverageTime, avg, cadence>>
    \* the records of the short tick just finished are dropped
    /\ processCalls' = << >>
    /\ sgp40Env' = NoEnv
    /\ rFilled' = FALSE
    /\ vocFilled' = FALSE
    /\ UNCHANGED <<currentMillis, lastSampleTime, sums, r, voc,
                   voc_algorithm, wifiStatus, httpResponseCode, posted, win,
                   lastOutcome>>

\* A body from which the sample count is left out.
JsonPayload_OmitsSampleCount(a) ==
    [ temperature  |-> String2(a.avgTemp),
      humidity     |-> String2(a.avgHumidity),
      voc_index    |-> a.avgVocIndex,
      raw_voc      |-> a.avgRawVoc,
      pm1_0        |-> a.avgPM1_0,
      pm2_5        |-> a.avgPM2_5,
      pm10         |-> a.avgPM10 ]

\* The JSON body built from the client's arguments; the two floats are
\* printed with two decimals.
JsonPayload(a) ==
    [ temperature  |-> String2(a.avgTemp),
      humidity     |-> String2(a.avgHumidity),
      voc_index    |-> a.avgVocIndex,
      raw_voc      |-> a.avgRawVoc,
      pm1_0        |-> a.avgPM1_0,
      pm2_5        |-> a.avgPM2_5,
      pm10         |-> a.avgPM10,
      sample_count |-> a.sampleCount ]

\* A client that, finding the link down, clears the sample counter (the
\* parameter sampleCount shadows the global of the same name; this client
\* writes to the global).
sendDataToCloudflare_ClearsCountOnFailure ==
    /\ \E status \in WiFiStatuses :
          /\ wifiStatus' = status
          /\ IF status = "WL_CONNECTED"
                THEN /\ posted' = Append(posted, JsonPayload(avg))
                     /\ \E code \in HttpResponseCodes :
                           httpResponseCode' = code
                     /\ UNCHANGED sums
                ELSE /\ UNCHANGED <<posted, httpResponseCode>>
                     /\ sampleCount' = 0
                     /\ UNCHANGED <<tempSum, humiditySum, vocIndexSum,
                                    rawVocSum, pm1_0Sum, pm2_5Sum, pm10Sum>>

\* A client that does not test WiFi.status() before posting.
sendDataToCloudflare_PostsRegardless ==
    /\ \E status \in WiFiStatuses :
          /\ wifiStatus' = status
          /\ posted' = Append(posted, JsonPayload(avg))
          /\ \E code \in HttpResponseCodes : httpResponseCode' = code
    /\ UNCHANGED sums

\* A client that posts a second time when the first POST returned an error.
sendDataToCloudflare_RetriesOnce ==
    /\ \E status \in WiFiStatuses :
          /\ wifiStatus' = status
          /\ IF status = "WL_CONNECTED"
                THEN \E code \in HttpResponseCodes :
                        /\ httpResponseCode' = code
                        /\ posted' =
                              IF code > 0
                                 THEN Append(posted, JsonPayload(avg))
                                 ELSE Append(Append(posted, JsonPayload(avg)),
                                             JsonPayload(avg))
                ELSE UNCHANGED <<posted, httpResponseCode>>
    /\ UNCHANGED sums

\* sendDataToCloudflare(avgTemp, ..., sampleCount): one POST when the link
\* is up, none when it is down; the outcome is only logged.
sendDataToCloudflare ==
    /\ \E status \in WiFiStatuses :
          /\ wifiStatus' = status
          /\ IF status = "WL_CONNECTED"
                THEN /\ posted' = Append(posted, JsonPayload(avg))
                     /\ \E code \in HttpResponseCodes :
                           httpResponseCode' = code
                ELSE UNCHANGED <<posted, httpResponseCode>>
    /\ UNCHANGED sums

Send ==
    /\ pc = "send"
    /\ UNCHANGED <<decoder, helper, server>>
    /\ sendDataToCloudflare
    /\ pc' = "reset"
    /\ UNCHANGED <<timers, locals, voc_algorithm, processCalls, avg, win,
                   lastOutcome, cadence>>

\* What the client, which returns void, has printed about the outcome when
\* it returns: the branch of WiFi.status() == WL_CONNECTED and, in it, the
\* branch of httpResponseCode > 0.
ClientLog ==
    IF wifiStatus # "WL_CONNECTED" THEN "WiFi not connected!"
    ELSE IF httpResponseCode > 0 THEN "HTTP Response code: "
    ELSE "Error sending data: "

\* The client call of this iteration failed: no POST went out, or the POST
\* returned a client error code or a status outside 2xx.
SendFailed ==
    \/ posted = << >>
    \/ httpResponseCode < 200
    \/ httpResponseCode > 299

\* A reset that leaves out one of the sums.
ResetSums_ForgetsRawVoc ==
    /\ tempSum' = 0
    /\ humiditySum' = 0
    /\ vocIndexSum' = 0
    /\ rawVocSum' = rawVocSum
    /\ pm1_0Sum' = 0
    /\ pm2_5Sum' = 0
    /\ pm10Sum' = 0
    /\ sampleCount' = 0

\* A reset that keeps the window for a later attempt when the send failed.
ResetSums_OnlyAfterSuccess ==
    IF SendFailed
       THEN UNCHANGED sums
       ELSE /\ tempSum' = 0
            /\ humiditySum' = 0
            /\ vocIndexSum' = 0
            /\ rawVocSum' = 0
            /\ pm1_0Sum' = 0
            /\ pm2_5Sum' = 0
            /\ pm10Sum' = 0
            /\ sampleCount' = 0

\* Reset sums and counter
ResetSums ==
    /\ tempSum' = 0
    /\ humiditySum' = 0
    /\ vocIndexSum' = 0
    /\ rawVocSum' = 0
    /\ pm1_0Sum' = 0
    /\ pm2_5Sum' = 0
    /\ pm10Sum' = 0
    /\ sampleCount' = 0

\* A long tick that constructs the gas-index algorithm anew with the sums.
Reset_RecreatesAlgorithm ==
    /\ pc = "reset"
    /\ UNCHANGED <<decoder, helper, server>>
    /\ ResetSums
    /\ voc_algorithm' = [samples |-> 0]
    /\ lastAverageTime' = currentMillis
    /\ win' = EmptyWindow
    /\ lastOutcome' = IF SendFailed THEN "failed" ELSE "sent"
    /\ avg' = NoAvg
    /\ wifiStatus' = "unread"
    /\ httpResponseCode' = NoResponse
    /\ posted' = << >>
    /\ pc' = "loop"
    /\ UNCHANGED <<currentMillis, lastSampleTime, locals, processCalls,
                   cadence>>

\* A long tick that goes no further when the send failed.
Reset_HaltsOnFailure ==
    /\ pc = "reset"
    /\ ~SendFailed
    /\ UNCHANGED <<decoder, helper, server>>
    /\ ResetSums
    /\ lastAverageTime' = currentMillis
    /\ win' = EmptyWindow
    /\ lastOutcome' = "sent"
    /\ avg' = NoAvg
    /\ wifiStatus' = "unread"
    /\ httpResponseCode' = NoResponse
    /\ posted' = << >>
    /\ pc' = "loop"
    /\ UNCHANGED <<currentMillis, lastSampleTime, locals, voc_algorithm,
                   processCalls, cadence>>

\* The tail of the long tick, after the client has returned.
Reset ==
    /\ pc = "reset"
    /\ UNCHANGED <<decoder, helper, server>>
    /\ ResetSums
    /\ lastAverageTime' = currentMillis
    /\ win' = EmptyWindow
    /\ lastOutcome' = IF SendFailed THEN "failed" ELSE "sent"
    \* the client's arguments and locals are gone
    /\ avg' = NoAvg
    /\ wifiStatus' = "unread"
    /\ httpResponseCode' = NoResponse
    /\ posted' = << >>
    /\ pc' = "loop"
    /\ UNCHANGED <<currentMillis, lastSampleTime, locals, voc_algorithm,
                   processCalls, cadence>>

(* ------------------------------------------------- crc8 taken on its own *)

Bytes == 0..(U8Mod - 1)

\* Byte arrays over the given bytes, of the given length.
Arrays(alphabet, n) == [1..n -> alphabet]

\* The arrays crc8 is evaluated on: every array of at most two bytes, and
\* longer ones over a few bytes; len may stop short of the array's end.
CrcInputs ==
    { [data |-> d, len |-> Len(d)] :
        d \in Arrays(Bytes, 0) \cup Arrays(Bytes, 1) \cup Arrays(Bytes, 2) }
    \cup
    { [data |-> d, len |-> n] :
        d \in UNION { Arrays({0, 49, 190, 239, 255}, k) : k \in 3..MaxCrcLen },
        n \in 2..3 }

CrcInit ==
    /\ SchedulerInit
    /\ ServerIdle
    /\ DecoderIdle
    /\ arg \in { <<in>> : in \in CrcInputs }
    /\ ret = << >>

\* crc8(arg.data, arg.len) is called and returns.
CrcCall ==
    /\ ret = << >>
    /\ ret' = <<crc8(arg[1].data, arg[1].len)>>
    /\ UNCHANGED <<scheduler, server, decoder, arg>>

CrcNext == CrcCall

CrcSpec == CrcInit /\ [][CrcNext]_vars

(* -------------------------------------------- readSHT31 taken on its own *)

\* Raw 16-bit words the sensor answers with.
SHT31Words == {0, 1, 26214, 32768, 48879, 65535}

\* The six bytes the sensor sends for two words: each word, then its CRC.
SHT31Response(rawT, rawRH) ==
    LET t == <<rawT \div U8Mod, rawT % U8Mod>>
        h == <<rawRH \div U8Mod, rawRH % U8Mod>>
    IN  t \o <<crc8(t, 2)>> \o h \o <<crc8(h, 2)>>

\* Wire.endTransmission(): 0 success, 1..4 the errors.
EndTransmissionErrors == 1..4

SHT31Init ==
    /\ SchedulerInit
    /\ ServerIdle
    /\ DecoderIdle
    /\ \E rawT \in SHT31Words, rawRH \in SHT31Words :
          arg = << [ endTransmission |-> 0, count |-> 6,
                     raw |-> SHT31Response(rawT, rawRH), fault |-> "none" ] >>
    /\ ret = << >>

\* One byte of the response arrives changed.
SHT31CorruptByte ==
    /\ ret = << >>
    /\ arg[1].fault = "none"
    /\ \E i \in 1..6, v \in Bytes :
          /\ v # arg[1].raw[i]
          /\ arg' = << [arg[1] EXCEPT !.raw[i] = v, !.fault = "byte"] >>
    /\ UNCHANGED <<scheduler, server, decoder, ret>>

\* The command write is not acknowledged.
SHT31WriteFails ==
    /\ ret = << >>
    /\ arg[1].fault = "none"
    /\ \E e \in EndTransmissionErrors :
          arg' = << [arg[1] EXCEPT !.endTransmission = e, !.fault = "bus"] >>
    /\ UNCHANGED <<scheduler, server, decoder, ret>>

\* requestFrom returns fewer than the six bytes asked for.
SHT31ShortRead ==
    /\ ret = << >>
    /\ arg[1].fault = "none"
    /\ \E n \in 0..5 :
          arg' = << [arg[1] EXCEPT !.count = n, !.fault = "short"] >>
    /\ UNCHANGED <<scheduler, server, decoder, ret>>

\* readSHT31 runs on the transaction.
SHT31Call ==
    /\ ret = << >>
    /\ ret' = <<readSHT31(arg[1])>>
    /\ UNCHANGED <<scheduler, server, decoder, arg>>

SHT31Next ==
    \/ SHT31CorruptByte
    \/ SHT31WriteFails
    \/ SHT31ShortRead
    \/ SHT31Call

SHT31Spec == SHT31Init /\ [][SHT31Next]_vars

(* ------------------------- readSHT31 and then readSGP40, as loop() calls them *)

\* The three bytes the gas sensor answers with: the raw word and its CRC.
SGP40Response(w) == <<w \div U8Mod, w % U8Mod, crc8_pair(w \div U8Mod, w % U8Mod)>>

\* The raw words of the sweep: the first and the last of every eight, the
\* words 0 and 65535 among them.
SweepWords == { w \in 0..(U16Mod - 1) : w % 8 \in {0, 7} }

\* The raw words for which the faults of the two buses are gone through.
FaultWords == {0, 48879, 65535}

\* The temperature and humidity sensor is about to answer with two raw
\* words: a temperature word of SweepWords with the humidity word
\* 65535 - rawT (the sweep), or a pair of FaultWords.
CompensationInit ==
    /\ SchedulerInit
    /\ ServerIdle
    /\ DecoderIdle
    /\ \/ \E rawT \in SweepWords :
             arg = << [ stage |-> "raw", sweep |-> TRUE,
                        rawT |-> rawT, rawRH |-> (U16Mod - 1) - rawT,
                        bus |-> [endTransmission |-> 0, count |-> 3,
                                 res |-> SGP40Response(20000)],
                        fault |-> "none" ] >>
       \/ \E rawT \in FaultWords, rawRH \in FaultWords, v \in RawVocValues :
             arg = << [ stage |-> "raw", sweep |-> FALSE,
                        rawT |-> rawT, rawRH |-> rawRH,
                        bus |-> [endTransmission |-> 0, count |-> 3,
                                 res |-> SGP40Response(v)],
                        fault |-> "none" ] >>
    /\ ret = << >>

\* loop() calls readSHT31(r): on success r is what the sensor's words
\* convert to; on failure r keeps what was in its stack slot, a reading of
\* an earlier tick or anything else, a NaN included.
CompensationSensorRead ==
    /\ arg[1].stage = "raw"
    /\ \/ LET rd == readSHT31([ endTransmission |-> 0, count |-> 6,
                                raw |-> SHT31Response(arg[1].rawT,
                                                      arg[1].rawRH) ])
          IN  /\ rd.ok
              /\ arg' = << [arg[1] EXCEPT !.stage = "env"] @@
                           [env |-> rd.out[1] @@ [nan |-> FALSE],
                            filled |-> TRUE] >>
       \/ /\ ~arg[1].sweep
          /\ \E slot \in { [nan |-> TRUE] } \cup
                         { SHT31Convert(SHT31Response(w, w)) @@ [nan |-> FALSE] :
                               w \in {0, 48879} } :
                arg' = << [arg[1] EXCEPT !.stage = "env"] @@
                          [env |-> slot, filled |-> FALSE] >>
    /\ UNCHANGED <<scheduler, server, decoder, ret>>

\* The transaction with the gas sensor goes wrong: the write is not
\* acknowledged, fewer than three bytes come back, or one byte of the
\* response arrives changed.
CompensationBusFault ==
    /\ arg[1].stage = "env"
    /\ ~arg[1].sweep
    /\ arg[1].fault = "none"
    /\ ret = << >>
    /\ \/ \E e \in EndTransmissionErrors :
             arg' = << [arg[1] EXCEPT !.bus.endTransmission = e,
                                      !.fault = "bus"] >>
       \/ \E n \in 0..2 :
             arg' = << [arg[1] EXCEPT !.bus.count = n, !.fault = "short"] >>
       \/ \E i \in 1..3, v \in {0, 1, 128, 255} :
             /\ v # arg[1].bus.res[i]
             /\ arg' = << [arg[1] EXCEPT !.bus.res[i] = v, !.fault = "byte"] >>
    /\ UNCHANGED <<scheduler, server, decoder, ret>>

\* loop() calls readSGP40(r, voc).
CompensationGasRead ==
    /\ arg[1].stage = "env"
    /\ ret = << >>
    /\ \E w \in CompensationWords(arg[1].env, SHT31Words) :
          ret' = << readSGP40(w, arg[1].bus) @@ [h |-> w.h, t |-> w.t] >>
    /\ UNCHANGED <<scheduler, server, decoder, arg>>

CompensationNext ==
    \/ CompensationSensorRead
    \/ CompensationBusFault
    \/ CompensationGasRead

CompensationSpec == CompensationInit /\ [][CompensationNext]_vars

(* ----------------------------- humToTicks, tempToTicks taken on their own *)

\* Arguments in tenths, from below both domains to above both, and NaN.
TicksInputs ==
    { [nan |-> FALSE, v |-> x] : x \in (-650)..1500 }
    \cup { [nan |-> TRUE, v |-> 0] }

TicksInit ==
    /\ SchedulerInit
    /\ ServerIdle
    /\ DecoderIdle
    /\ arg \in { <<x>> : x \in TicksInputs }
    /\ ret = << >>

HumToTicksCall ==
    /\ ret = << >>
    /\ \E t \in TicksOutcomes(arg[1], humToTicks(arg[1].v)) :
          ret' = << [fn |-> "humToTicks", ticks |-> t] >>
    /\ UNCHANGED <<scheduler, server, decoder, arg>>

TempToTicksCall ==
    /\ ret = << >>
    /\ \E t \in TicksOutcomes(arg[1], tempToTicks(arg[1].v)) :
          ret' = << [fn |-> "tempToTicks", ticks |-> t] >>
    /\ UNCHANGED <<scheduler, server, decoder, arg>>

TicksNext ==
    \/ HumToTicksCall
    \/ TempToTicksCall

TicksSpec == TicksInit /\ [][TicksNext]_vars

(* ----------------------------------------- readPMSFrame taken on its own *)

\* The two bytes of a 16-bit word, high byte first.
BigEndian(w) == <<w \div U8Mod, w % U8Mod>>

\* The 32 bytes the sensor sends for thirteen data words: header, the length
\* 28, the words, and the 16-bit sum of all that goes before it.
PMSFrame(words) ==
    LET RECURSIVE Data(_)
        Data(k) == IF k = 0 THEN << >> ELSE Data(k - 1) \o BigEndian(words[k])
        body == <<HEADER_H, HEADER_L>> \o BigEndian(28) \o Data(13)
    IN  body \o BigEndian(SumBytes(body) % U16Mod)

\* Data words with the three mass concentrations the program reads (words
\* 4 to 6) and a particle count (word 7).
PMSWords(pm1, pm25, pm10, count) ==
    [k \in 1..13 |->
        CASE k = 4 -> pm1 [] k = 5 -> pm25 [] k = 6 -> pm10 [] k = 7 -> count
          [] OTHER -> 0]

\* A frame, and one whose particle count is 0x424D.
PMSValidFrames ==
    { PMSFrame(PMSWords(5, 8, 11, 300)), PMSFrame(PMSWords(300, 8, 11, 16973)) }

\* A frame that declares the length 24 with a sum that matches, and one with
\* the right length whose checksum field is one too high.
PMSInvalidFrames ==
    LET f == PMSFrame(PMSWords(5, 8, 11, 300))
        short == [f EXCEPT ![4] = 24]
        body  == SubSeq(short, 1, 30)
    IN  { body \o BigEndian(SumBytes(body) % U16Mod),
          [f EXCEPT ![32] = (f[32] + 1) % U8Mod] }

\* What the receive buffer can hold before the frame: line noise, with and
\* without header bytes in it.
PMSGarbage ==
    { << >>, <<0>>, <<HEADER_H>>, <<HEADER_L, HEADER_H>>, <<7, HEADER_H, 7>>,
      <<HEADER_H, HEADER_L>>, <<9, HEADER_H, HEADER_L, 9>> }

\* Whether a byte sequence has HEADER_H HEADER_L in it.
HasHeader(bytes) ==
    \E i \in 1..(Len(bytes) - 1) : bytes[i] = HEADER_H /\ bytes[i + 1] = HEADER_L

\* How many bytes can arrive between two looks at the buffer (or all the
\* rest at once).
PMSChunks == {1, 2, 17}

PMSInit ==
    /\ SchedulerInit
    /\ ServerIdle
    /\ HelperIdle
    /\ \E g \in PMSGarbage, f \in PMSValidFrames \cup PMSInvalidFrames :
          /\ pmsSensor = g \o f
          /\ pmsHist = [ frame |-> f, garbage |-> g,
                         kind |-> IF f \in PMSValidFrames THEN "valid" ELSE "invalid",
                         arrivals |-> 0, early |-> FALSE, partial |-> FALSE, late |-> FALSE,
                         accepted |-> FALSE ]
    /\ pmsSerial = << >>
    /\ pmsRet = << >>

\* Before the sensor sends it, one byte of the frame's checksum field is
\* changed to another value.
PMSCorruptChecksum ==
    /\ pmsSerial = << >>
    /\ pmsRet = << >>
    /\ pmsHist.kind = "valid"
    /\ pmsSensor = pmsHist.garbage \o pmsHist.frame
    /\ \E i \in {31, 32}, v \in Bytes :
          /\ v # pmsHist.frame[i]
          /\ pmsSensor' = pmsHist.garbage \o [pmsHist.frame EXCEPT ![i] = v]
    /\ pmsHist' = [pmsHist EXCEPT !.kind = "mutated"]
    /\ UNCHANGED <<scheduler, server, helper, pmsSerial, pmsRet>>

\* Bytes from the sensor reach the receive buffer.
PMSArrive ==
    /\ pmsSensor # << >>
    /\ \E n \in PMSChunks \cup {Len(pmsSensor)} :
          /\ n <= Len(pmsSensor)
          /\ (pmsHist.arrivals + 1 >= MaxArrivals) => (n = Len(pmsSensor))
          /\ pmsSerial' = pmsSerial \o SubSeq(pmsSensor, 1, n)
          /\ pmsSensor' = SubSeq(pmsSensor, n + 1, Len(pmsSensor))
    /\ pmsHist' = [pmsHist EXCEPT !.arrivals = @ + 1]
    /\ UNCHANGED <<scheduler, server, helper, pmsRet>>

\* loop() calls readPMSFrame.
PMSCall ==
    LET res == readPMSFrame(pmsSerial)
    IN  /\ pmsSerial' = res.rest
        /\ pmsRet' = << [ok |-> res.ok, out |-> res.out, why |-> res.why] >>
        /\ pmsHist' = [pmsHist EXCEPT
                          !.early = @ \/ pmsSensor # << >>,
                          !.late = @ \/ pmsSensor = << >>,
                          !.partial = @ \/ res.why = "short",
                          !.accepted = @ \/ res.ok]
        /\ UNCHANGED <<scheduler, server, helper, pmsSensor>>

PMSNext ==
    \/ PMSCorruptChecksum
    \/ PMSArrive
    \/ PMSCall

PMSSpec == PMSInit /\ [][PMSNext]_vars

(* ------------------------------ readPMSFrame once per short tick, backlog *)

\* The k-th frame the sensor sends: its PM1.0 reading is k.
PMSNumberedFrame(k) == PMSFrame(PMSWords(k, 8, 11, 300))

\* The serial port opens while the sensor is at byte p of frame 0: the
\* buffer holds the rest of it.  The history keeps the numbers of the frames
\* buffered whole, in the order of their arrival, the number of frames
\* sent, the frames sent since the last short tick, and the number of whole
\* frames that tick left unread.
PMSBacklogInit ==
    /\ SchedulerInit
    /\ ServerIdle
    /\ HelperIdle
    /\ \E p \in 0..(FRAME_LEN_BYTES - 1) :
          /\ pmsSerial = SubSeq(PMSNumberedFrame(0), p + 1, FRAME_LEN_BYTES)
          /\ pmsHist = [ queue |-> IF p = 0 THEN <<0>> ELSE << >>,
                         sent |-> 0, sinceTick |-> 0,
                         backlog |-> 0 ]
    /\ pmsSensor = PMSNumberedFrame(1)
    /\ pmsRet = << >>

\* The sensor sends its next frame, which is buffered whole.
PMSBacklogEmit ==
    /\ pmsHist.sent < MaxFrames
    /\ Len(pmsSerial) + FRAME_LEN_BYTES <= MaxBuffered
    /\ pmsSerial' = pmsSerial \o pmsSensor
    /\ pmsSensor' = PMSNumberedFrame(pmsHist.sent + 2)
    /\ pmsHist' = [pmsHist EXCEPT !.queue = Append(@, pmsHist.sent + 1),
                                  !.sent = @ + 1,
                                  !.sinceTick = @ + 1]
    /\ UNCHANGED <<scheduler, server, helper, pmsRet>>

\* A short tick of loop() makes its one call of readPMSFrame.
PMSBacklogTick ==
    LET res == readPMSFrame(pmsSerial)
    IN  /\ pmsSerial' = res.rest
        /\ pmsRet' = << [ok |-> res.ok, out |-> res.out, why |-> res.why] >>
        /\ pmsHist' = [pmsHist EXCEPT
                          !.queue = IF res.ok /\ @ # << >> THEN Tail(@) ELSE @,
                          !.sinceTick = 0,
                          !.backlog = Len(res.rest) \div FRAME_LEN_BYTES]
        /\ UNCHANGED <<scheduler, server, helper, pmsSensor>>

PMSBacklogNext ==
    \/ PMSBacklogEmit
    \/ PMSBacklogTick

PMSBacklogSpec == PMSBacklogInit /\ [][PMSBacklogNext]_vars

(* ------------------------------- readPMSFrame on a sensor that keeps sending *)

\* The serial port opens while the sensor, which sends the same valid frame
\* over and over, is at byte p of a frame: the buffer holds the rest of it.
PMSStreamInit ==
    /\ SchedulerInit
    /\ ServerIdle
    /\ HelperIdle
    /\ \E f \in PMSValidFrames, p \in 0..(FRAME_LEN_BYTES - 1) :
          /\ pmsSensor = f
          /\ pmsSerial = SubSeq(f, p + 1, FRAME_LEN_BYTES)
          /\ pmsHist = [phase |-> p]
    /\ pmsRet = << >>

\* The sensor sends its next frame, which is buffered whole.
PMSEmit ==
    /\ Len(pmsSerial) + FRAME_LEN_BYTES <= MaxBuffered
    /\ pmsSerial' = pmsSerial \o pmsSensor
    /\ UNCHANGED <<scheduler, server, helper, pmsSensor, pmsRet, pmsHist>>

\* loop() calls readPMSFrame.
PMSPoll ==
    LET res == readPMSFrame(pmsSerial)
    IN  /\ pmsSerial' = res.rest
        /\ pmsRet' = << [ok |-> res.ok, out |-> res.out, why |-> res.why] >>
        /\ UNCHANGED <<scheduler, server, helper, pmsSensor, pmsHist>>

PMSStreamNext ==
    \/ PMSEmit
    \/ PMSPoll

\* The sensor keeps sending and loop() keeps calling.
PMSStreamSpec ==
    /\ PMSStreamInit
    /\ [][PMSStreamNext]_vars
    /\ WF_vars(PMSEmit)
    /\ WF_vars(PMSPoll)

(* --------------------------------- readPMSFrame on frames of chosen words *)

\* Values of the standard-particle words (data words 1 to 3) and of the
\* atmospheric words (data words 4 to 6) of a frame.
PMSStandardValues == {0, 7, 65535}

PMSAtmosphericValues == {0, 5, 300, 65535}

\* The buffer holds one valid frame whose other data words are 100 + k.
PMSFieldsInit ==
    /\ SchedulerInit
    /\ ServerIdle
    /\ HelperIdle
    /\ \E std \in [1..3 -> PMSStandardValues],
          atm \in [4..6 -> PMSAtmosphericValues] :
          LET words == [k \in 1..13 |->
                          IF k <= 3 THEN std[k]
                          ELSE IF k <= 6 THEN atm[k] ELSE 100 + k]
          IN  /\ pmsSerial = PMSFrame(words)
              /\ pmsHist = [words |-> words]
    /\ pmsSensor = << >>
    /\ pmsRet = << >>

PMSFieldsNext == PMSPoll

PMSFieldsSpec == PMSFieldsInit /\ [][PMSFieldsNext]_vars

(* ---------------------------------------------------------- specification *)

Next ==
    \/ LoopStart
    \/ ShortTickSHT31
    \/ ShortTickSGP40
    \/ ShortTickPMS
    \/ LongTick
    \/ Send
    \/ Reset

Spec == Init /\ [][Next]_vars

(* ------------------------------------- the timers, millisecond by millisecond *)

\* The time the run below covers.
MaxCadenceMillis == 20000

\* Times between two reads of millis() around the short period: the same
\* millisecond, one millisecond less than SAMPLE_INTERVAL, SAMPLE_INTERVAL,
\* and two periods spent in one blocked iteration.
CadenceDeltas == {0, 4999, 5000, 10000}

\* millis() 10 s before it wraps to 0 (after about 49.7 days): 2^32 - 10000.
CadenceOrigin == [hi |-> U16Mod - 1, lo |-> U16Mod - 10000]

\* loop() has just run at CadenceOrigin: the short tick fired there, 50 s
\* after the long tick that ended the last window, and no sensor answered.
CadenceInit ==
    /\ ServerIdle
    /\ DecoderIdle
    /\ HelperIdle
    /\ pc = "loop"
    /\ currentMillis = CadenceOrigin
    /\ lastSampleTime = CadenceOrigin
    /\ lastAverageTime = [hi |-> U16Mod - 1, lo |-> U16Mod - 60000]
    /\ tempSum = 0
    /\ humiditySum = 0
    /\ vocIndexSum = 0
    /\ rawVocSum = 0
    /\ pm1_0Sum = 0
    /\ pm2_5Sum = 0
    /\ pm10Sum = 0
    /\ sampleCount = 1
    /\ r = NoReading
    /\ rFilled = FALSE
    /\ voc = NoTicks
    /\ vocFilled = FALSE
    /\ voc_algorithm = [samples |-> 0]
    /\ processCalls = << >>
    /\ sgp40Env = NoEnv
    /\ wifiStatus = "unread"
    /\ avg = NoAvg
    /\ httpResponseCode = NoResponse
    /\ posted = << >>
    /\ win = [EmptyWindow EXCEPT !.n = 1]
    /\ lastOutcome = "failed"
    /\ cadence = [short |-> 50000, shortFired |-> TRUE,
                  long |-> 50000, longFired |-> FALSE]

CadenceLoopStart ==
    /\ pc = "loop"
    /\ UNCHANGED <<decoder, helper, server>>
    /\ \E d \in CadenceDeltas :
          /\ ~ULongGE(ULongSub(ULongAdd(currentMillis, d), CadenceOrigin),
                      MaxCadenceMillis + 1)
          /\ LoopEnter(d)

CadenceNext ==
    \/ CadenceLoopStart
    \/ ShortTickSHT31
    \/ ShortTickSGP40
    \/ ShortTickPMS
    \/ LongTick
    \/ Send
    \/ Reset

CadenceSpec == CadenceInit /\ [][CadenceNext]_vars

(* ------------------------------------------------- the loop, run for ever *)

\* Times between two reads of millis() that bring every value of the
\* 32-bit counter back: the same millisecond, and 2^30 ms.
LiveDeltas == {0, 2 ^ 30}

LiveLoopStart ==
    /\ pc = "loop"
    /\ UNCHANGED <<decoder, helper, server>>
    /\ \E d \in LiveDeltas : LoopEnter(d)

\* Time passes: loop() is entered at a later value of millis().
LiveTimePasses ==
    /\ pc = "loop"
    /\ UNCHANGED <<decoder, helper, server>>
    /\ \E d \in LiveDeltas \ {0} : LoopEnter(d)

LiveNext ==
    \/ LiveLoopStart
    \/ ShortTickSHT31
    \/ ShortTickSGP40
    \/ ShortTickPMS
    \/ LongTick
    \/ Send
    \/ Reset

\* Every blocking call returns, so every step of loop() that is begun is
\* finished and loop() is entered again; millis() goes on, so of the
\* entries of loop() some come at a later value of it.  Every step of
\* loop() moves pc.
LiveSpec ==
    /\ Init
    /\ [][LiveNext]_vars
    /\ SF_pc(LiveTimePasses)
    /\ WF_pc(ShortTickSHT31)
    /\ WF_pc(ShortTickSGP40)
    /\ WF_pc(ShortTickPMS)
    /\ WF_pc(LongTick)
    /\ WF_pc(Send)
    /\ WF_pc(Reset)

(* ------------------------------------------------------------ the workers *)

\* Rows the table holds at most in the runs below.
MaxRecords == 2

\* The fields the ingestion worker takes from the body.
RequiredFields ==
    {"temperature", "humidity", "voc_index", "raw_voc",
     "pm1_0", "pm2_5", "pm10", "sample_count"}

\* The days on which something happens, as [y, m, d]; serverNow is an index
\* into them.
ServerDates ==
    << [y |-> 2024, m |-> 11, d |-> 15], [y |-> 2025, m |-> 1, d |-> 15],
       [y |-> 2025, m |-> 2, d |-> 28],  [y |-> 2025, m |-> 3, d |-> 1],
       [y |-> 2025, m |-> 3, d |-> 2],   [y |-> 2025, m |-> 4, d |-> 29],
       [y |-> 2025, m |-> 4, d |-> 30],  [y |-> 2025, m |-> 5, d |-> 1] >>

IsLeapYear(y) == (y % 4 = 0 /\ y % 100 # 0) \/ y % 400 = 0

DaysInMonth(y, m) ==
    IF m = 2 THEN (IF IsLeapYear(y) THEN 29 ELSE 28)
    ELSE IF m \in {4, 6, 9, 11} THEN 30
    ELSE 31

\* date.setMonth(date.getMonth() - n), 0 <= n <= 12: the month index may
\* become negative, which takes a year off; a day of the month the new month
\* does not have runs over into the month after it.
SetMonthBack(date, n) ==
    LET mi == (date.m - 1) - n
        y2 == IF mi < 0 THEN date.y - 1 ELSE date.y
        m2 == (IF mi < 0 THEN mi + 12 ELSE mi) + 1
        dim == DaysInMonth(y2, m2)
    IN  IF date.d <= dim
           THEN [y |-> y2, m |-> m2, d |-> date.d]
           ELSE [y |-> IF m2 = 12 THEN y2 + 1 ELSE y2,
                 m |-> IF m2 = 12 THEN 1 ELSE m2 + 1,
                 d |-> date.d - dim]

\* timestamp < ? on two strings written by toISOString(): the order of the
\* text is the order of year, month, day.
IsoLess(a, b) ==
    \/ a.y < b.y
    \/ a.y = b.y /\ a.m < b.m
    \/ a.y = b.y /\ a.m = b.m /\ a.d < b.d

\* What request.json() makes of a body: it throws SyntaxError, or gives
\* null, a number, or an object in which the named fields are defined.
ParsedBodies ==
    { [kind |-> "SyntaxError"], [kind |-> "null"], [kind |-> "number"] }
    \cup
    { [kind |-> "object", fields |-> RequiredFields \ missing] :
        missing \in {{}} \cup { {f} : f \in RequiredFields }
                         \cup {RequiredFields} }

\* request.json() of a body the device has written.
JsonParse(payload) == [kind |-> "object", fields |-> DOMAIN payload]

\* The Authorization header: absent, or a bearer token with a signature
\* that verifies or not and the day after which it has expired.
Tokens ==
    { [present |-> FALSE] }
    \cup
    { [present |-> TRUE, signed |-> FALSE, exp |-> 6],
      [present |-> TRUE, signed |-> TRUE, exp |-> 2],
      [present |-> TRUE, signed |-> TRUE, exp |-> 6] }

IngestRequests ==
    { [worker |-> "ingest", method |-> mt, body |-> b, auth |-> t] :
        mt \in {"POST", "GET"}, b \in ParsedBodies, t \in Tokens }

\* const {temperature, ..., sample_count} = data: destructuring null throws
\* TypeError; the properties of a number are undefined.
DestructureThrows(body) == body.kind = "null"

\* temperature === undefined || ... || sample_count === undefined
MissingField(body) ==
    \E f \in RequiredFields :
        ~(body.kind = "object" /\ f \in body.fields)

\* fetch of the ingestion worker: status and whether a row is inserted.
\* dbFails says that the INSERT throws.
IngestOutcome(req, dbFails) ==
    IF req.method # "POST" THEN [status |-> 405, insert |-> FALSE]
    ELSE IF req.body.kind = "SyntaxError"
        THEN [status |-> 400, insert |-> FALSE]
    ELSE IF DestructureThrows(req.body)
        THEN [status |-> 500, insert |-> FALSE]
    ELSE IF MissingField(req.body)
        THEN [status |-> 400, insert |-> FALSE]
    ELSE IF dbFails THEN [status |-> 500, insert |-> FALSE]
    ELSE [status |-> 201, insert |-> TRUE]

\* The state after the workers are deployed: an empty table.
ServerInit ==
    /\ SchedulerInit
    /\ DecoderIdle
    /\ HelperIdle
    /\ db = << >>
    /\ serverNow = 1
    /\ request = << >>
    /\ response = << >>

\* Days pass.
ClockAdvance ==
    /\ serverNow < Len(ServerDates)
    /\ \E n \in (serverNow + 1)..Len(ServerDates) : serverNow' = n
    /\ UNCHANGED <<scheduler, decoder, helper, db, request, response>>

\* The ingestion worker answers one request.
IngestFetch ==
    \E req \in IngestRequests :
      \E dbFails \in IF IngestOutcome(req, FALSE).insert
                        THEN BOOLEAN ELSE {FALSE} :
        LET out == IngestOutcome(req, dbFails)
        IN  /\ out.insert => Len(db) < MaxRecords
            /\ request' = <<req>>
            /\ response' = << [status |-> out.status, read |-> FALSE] >>
            /\ db' = IF out.insert
                        THEN Append(db, [timestamp |-> ServerDates[serverNow]])
                        ELSE db
            /\ UNCHANGED <<scheduler, decoder, helper, serverNow>>

\* The rows a DELETE ... WHERE timestamp < cutoff leaves.
RowsKept(rows, cutoff) ==
    SelectSeq(rows, LAMBDA row : ~IsoLess(row.timestamp, cutoff))

\* scheduled of the ingestion worker: the DELETE runs, or it fails and the
\* failure is logged.
Scheduled ==
    LET twoMonthsAgo == SetMonthBack(ServerDates[serverNow], 2)
    IN  /\ request' = << [worker |-> "scheduled"] >>
        /\ \E runs \in BOOLEAN :
              /\ response' = << [success |-> runs, cutoff |-> twoMonthsAgo,
                                 before |-> db] >>
              /\ db' = IF runs THEN RowsKept(db, twoMonthsAgo) ELSE db
        /\ UNCHANGED <<scheduler, decoder, helper, serverNow>>

\* jwtVerify(token, JWT_SECRET) throws for a signature that does not verify;
\* then Date.now() / 1000 > payload.exp.
verifyToken(token, now) ==
    IF ~token.signed THEN FALSE
    ELSE IF now > token.exp THEN FALSE
    ELSE TRUE

DataRequests ==
    { [worker |-> "dashboard", method |-> "GET", auth |-> t] : t \in Tokens }

\* GET /api/data of the dashboard worker: 401 without the header or with a
\* token that does not verify; otherwise the container is queried.
DataFetch ==
    \E req \in DataRequests :
      \E queryFails \in IF req.auth.present /\ verifyToken(req.auth, serverNow)
                           THEN BOOLEAN ELSE {FALSE} :
        /\ request' = <<req>>
        /\ response' =
             IF ~req.auth.present THEN << [status |-> 401, read |-> FALSE] >>
             ELSE IF ~verifyToken(req.auth, serverNow)
                 THEN << [status |-> 401, read |-> FALSE] >>
             ELSE IF queryFails THEN << [status |-> 500, read |-> FALSE] >>
             ELSE << [status |-> 200, read |-> TRUE] >>
        /\ UNCHANGED <<scheduler, decoder, helper, db, serverNow>>

ServerNext ==
    \/ ClockAdvance
    \/ IngestFetch
    \/ Scheduled
    \/ DataFetch

ServerSpec == ServerInit /\ [][ServerNext]_vars

TypeOK ==
    /\ pc \in {"loop", "sht31", "sgp40", "pms", "avg", "send", "reset"}
    /\ currentMillis.hi \in 0..(U16Mod - 1)
    /\ currentMillis.lo \in 0..(U16Mod - 1)
    /\ rawVocSum \in 0..(U16Mod - 1)
    /\ sampleCount \in Nat

(* ============================================================== claims *)

AllZero == sums = <<0, 0, 0, 0, 0, 0, 0, 0>>

\* Every reader succeeded in every short tick since the last reset.
AllReadsSucceeded ==
    /\ win.n > 0
    /\ win.th = win.n
    /\ win.gas = win.n
    /\ win.pm = win.n

\* C1: at a long tick after N > 0 short ticks in which every read
\* succeeded, each mean passed to the client is the arithmetic mean of the
\* N values read (truncated for the integer fields) and sample_count is N.
C1_MeansAreArithmeticMeans ==
    (pc = "send" /\ AllReadsSucceeded) =>
        /\ avg.avgTemp.num * win.n = win.temp * avg.avgTemp.den
        /\ avg.avgHumidity.num * win.n = win.hum * avg.avgHumidity.den
        /\ avg.avgVocIndex = win.vocIndex \div win.n
        /\ avg.avgRawVoc = win.rawVoc \div win.n
        /\ avg.avgPM1_0 = win.pm1_0 \div win.n
        /\ avg.avgPM2_5 = win.pm2_5 \div win.n
        /\ avg.avgPM10 = win.pm10 \div win.n
        /\ avg.sampleCount = win.n

\* C2: when the temperature reads of a window that succeed all return the
\* same value v and the others fail, the temperature mean sent is v and the
\* sample_count sent is the number of successful reads.
C2_PartialFailureMean ==
    (pc = "send" /\ win.th > 0 /\ Cardinality(win.temps) = 1) =>
        \A v \in win.temps :
            /\ avg.avgTemp.num = v * avg.avgTemp.den
            /\ avg.sampleCount = win.th

\* C3: between short ticks, sampleCount >= 0 and every running sum has had
\* exactly sampleCount readings added to it since the last reset.
C3_SumsReflectCountAdditions ==
    (pc \in {"loop", "avg", "send", "reset"}) =>
        /\ sampleCount >= 0
        /\ win.th = sampleCount
        /\ win.gas = sampleCount
        /\ win.pm = sampleCount

\* C4: the tail of a long tick that had samples sets all seven sums and
\* sampleCount to zero in one step, and they stay zero until a reader of
\* the next short tick runs.
C4_ResetZeroesEverything ==
    [][ /\ (pc = "reset") => AllZero'
        /\ (AllZero /\ pc \in {"loop", "avg", "send", "reset"}) => AllZero'
      ]_vars

\* A long tick with samples has just finished and nothing is accumulated.
C4_Witness ==
    /\ pc = "loop"
    /\ lastOutcome # "none"
    /\ lastAverageTime = currentMillis
    /\ AllZero

\* C5: a client call that fails leaves the seven sums and sampleCount as
\* they were; the reset that follows it in the same long tick zeroes them.
C5_FailedSendKeepsAccumulators ==
    [][ /\ (pc = "send" /\ SendFailed') => (sums' = sums)
        /\ (pc = "reset" /\ SendFailed) => AllZero'
      ]_vars

\* The client has just failed and the sums are still those of the window.
C5_Witness ==
    /\ pc = "reset"
    /\ SendFailed
    /\ sampleCount > 0
    /\ tempSum = win.temp
    /\ tempSum > 0

\* The means the firmware's arithmetic gives for the readings taken since
\* the last reset, and for nothing else.
WindowMeans ==
    [ called      |-> TRUE,
      avgTemp     |-> FloatDiv(win.temp, win.n),
      avgHumidity |-> FloatDiv(win.hum, win.n),
      avgVocIndex |-> CDiv(win.vocIndex, win.n),
      avgRawVoc   |-> ((win.rawVoc % U16Mod) \div win.n) % U16Mod,
      avgPM1_0    |-> (win.pm1_0 \div win.n) % U16Mod,
      avgPM2_5    |-> (win.pm2_5 \div win.n) % U16Mod,
      avgPM10     |-> (win.pm10 \div win.n) % U16Mod,
      sampleCount |-> win.n ]

\* C6: an aggregate is given to the client once, in the long tick that
\* computed it, and is held nowhere afterwards; whatever the outcome of the
\* previous send, the aggregate of a window is computed from the readings
\* taken since the previous long tick only.
C6_NoRetryNoQueue ==
    /\ Len(posted) <= 1
    /\ (pc \in {"send", "reset"}) =>
          /\ avg = WindowMeans
          /\ \A i \in 1..Len(posted) : posted[i] = JsonPayload(WindowMeans)
    /\ (pc \notin {"send", "reset"}) => (avg = NoAvg /\ posted = << >>)

\* The client has been called for the window that follows a failed send.
C6_Witness ==
    /\ pc = "reset"
    /\ lastOutcome = "failed"
    /\ posted # << >>
    /\ win.n > 0

\* C7: when the link is down at the call of the client, no POST is
\* issued, the call returns, and after the long tick nothing of the
\* aggregate is kept.
C7_LinkDownFailsFast ==
    [][ /\ (pc = "send" /\ wifiStatus' # "WL_CONNECTED") =>
              (posted' = << >> /\ httpResponseCode' = NoResponse
               /\ pc' = "reset")
        /\ (pc = "reset" /\ wifiStatus # "WL_CONNECTED") =>
              (avg' = NoAvg /\ posted' = << >> /\ AllZero')
      ]_vars

\* The client has returned with the link down.
C7_Witness ==
    /\ pc = "reset"
    /\ wifiStatus = "WL_DISCONNECTED"
    /\ posted = << >>
    /\ avg.sampleCount > 0

\* C8: a due long tick calls the client exactly when sampleCount is not
\* zero; the client never gets sample_count = 0, no mean is a division by
\* zero, and a long tick issues at most one POST.
C8_ClientCalledIffSamples ==
    /\ [](/\ Len(posted) <= 1
          /\ (pc \in {"send", "reset"}) =>
                (avg.called /\ avg.sampleCount > 0
                 /\ avg.avgTemp.den # 0 /\ avg.avgHumidity.den # 0)
          /\ (posted # << >>) => (posted[1].sample_count > 0))
    /\ [][ (pc = "avg" /\ LongTickDue(currentMillis)) =>
              ((pc' = "send") <=> (sampleCount # 0)) ]_vars
    /\ [][ (pc' = "send") => (pc = "avg" /\ LongTickDue(currentMillis)) ]_vars

\* A long tick has posted its one body.
C8_Witness ==
    /\ pc = "reset"
    /\ Len(posted) = 1
    /\ posted[1].sample_count = sampleCount
    /\ sampleCount > 0

\* C9: the reading given to readSGP40 was filled in by a successful
\* readSHT31 of the same short tick.
C9_CompensationFromSameTick == sgp40Env.called => sgp40Env.fromRead

\* C10: in a short tick voc_algorithm.process is called once when
\* readSGP40 succeeded and not at all when it failed, and only ever with
\* the ticks that readSGP40 produced in that tick.
C10_ProcessOncePerReading ==
    (pc = "avg") =>
        /\ Len(processCalls) = (IF vocFilled THEN 1 ELSE 0)
        /\ \A i \in 1..Len(processCalls) : processCalls[i].read

\* C11: the gas-index algorithm object is never constructed anew (its
\* count of samples never goes down), and the long tick (test, client call
\* whatever its outcome, reset) and a reader that fails leave it as it is.
C11_GasIndexStateKept ==
    [][ /\ voc_algorithm'.samples >= voc_algorithm.samples
        /\ (pc \in {"loop", "avg", "send", "reset"}) =>
              (voc_algorithm' = voc_algorithm)
        /\ (pc = "sht31" /\ ~rFilled') => (voc_algorithm' = voc_algorithm)
        /\ (pc = "sgp40" /\ ~vocFilled') => (voc_algorithm' = voc_algorithm)
        /\ (pc = "pms" /\ win'.pm = win.pm) => (voc_algorithm' = voc_algorithm)
      ]_vars

\* A long tick whose send failed has reset the sums, and the algorithm
\* still holds the samples it was given before.
C11_Witness ==
    /\ pc = "loop"
    /\ lastOutcome = "failed"
    /\ AllZero
    /\ voc_algorithm.samples > 0

\* Every running sum is what the successful reads since the last reset
\* added to it, in the width of the sum.
SumsMatchWindow ==
    /\ tempSum = win.temp
    /\ humiditySum = win.hum
    /\ vocIndexSum = win.vocIndex
    /\ rawVocSum = win.rawVoc % U16Mod
    /\ pm1_0Sum = win.pm1_0
    /\ pm2_5Sum = win.pm2_5
    /\ pm10Sum = win.pm10

\* C17: a short tick calls the three readers once each, in turn; a reader
\* that fails leaves the sums of its own fields as they were, and the
\* readings of the readers that succeed are added whatever the others did.
C17_FailedReaderSkipped ==
    /\ []SumsMatchWindow
    /\ [][ /\ (pc = "sht31") => (pc' = "sgp40")
           /\ (pc = "sgp40") => (pc' = "pms")
           /\ (pc = "pms") => (pc' = "avg")
           /\ (pc = "sht31" /\ ~rFilled') =>
                 (tempSum' = tempSum /\ humiditySum' = humiditySum)
           /\ (pc = "sgp40" /\ ~vocFilled') =>
                 (vocIndexSum' = vocIndexSum /\ rawVocSum' = rawVocSum)
           /\ (pc = "pms" /\ win'.pm = win.pm) =>
                 (pm1_0Sum' = pm1_0Sum /\ pm2_5Sum' = pm2_5Sum
                  /\ pm10Sum' = pm10Sum)
           /\ (pc = "sgp40" /\ vocFilled') =>
                 (rawVocSum' = (rawVocSum + voc') % U16Mod)
         ]_vars

\* A short tick in which readSHT31 failed and readSGP40 succeeded is over:
\* the gas sums have grown and the temperature sum has not.
C17_Witness ==
    /\ pc = "avg"
    /\ ~rFilled
    /\ vocFilled
    /\ win.n = 1
    /\ tempSum = 0
    /\ rawVocSum > 0
    /\ vocIndexSum > 0

\* The reference CRC-8 (polynomial x^8 + x^5 + x^4 + 1, that is 0x31,
\* initial value 0xFF, most significant bit first, nothing reflected, no
\* final XOR), computed one message bit at a time: the register is shifted
\* left, and the polynomial is subtracted when the bit shifted out differs
\* from the message bit.
RefCrc8(bits) ==
    LET RECURSIVE Reg(_)
        Reg(k) ==
            IF k = 0 THEN 255
            ELSE LET prev == Reg(k - 1)
                     out == prev \div 128
                     shifted == (prev * 2) % 256
                 IN  IF out # bits[k] THEN Xor(shifted, 49, 8) ELSE shifted
    IN  Reg(Len(bits))

\* The bits of the first n bytes of an array, most significant bit first.
MessageBits(data, n) ==
    [k \in 1..(8 * n) |->
        (data[((k - 1) \div 8) + 1] \div (2 ^ (7 - ((k - 1) % 8)))) % 2]

\* C20: what crc8 returns is the reference CRC-8 of the bytes it was given,
\* and the call changes nothing but its result.
C20_Crc8IsReference ==
    /\ [](ret # << >> => ret[1] = RefCrc8(MessageBits(arg[1].data, arg[1].len)))
    /\ [][ret' # ret => UNCHANGED <<scheduler, server, decoder, arg>>]_vars

\* crc8 has returned 0x92 for the word 0xBE 0xEF.
C20_Witness ==
    /\ arg = << [data |-> <<190, 239>>, len |-> 2] >>
    /\ ret = <<146>>

\* C18: a response with one byte changed fails at least one of the two CRC
\* checks and readSHT31 returns failure; so it does when the command write
\* is not acknowledged and when fewer than six bytes are read.
C18_CorruptResponseFails ==
    (ret # << >>) =>
        /\ (arg[1].fault = "byte") =>
              /\ \/ crc8(SubSeq(arg[1].raw, 1, 2), 2) # arg[1].raw[3]
                 \/ crc8(SubSeq(arg[1].raw, 4, 5), 2) # arg[1].raw[6]
              /\ ~ret[1].ok
        /\ (arg[1].fault \in {"bus", "short"}) => ~ret[1].ok
        /\ ~ret[1].ok => ret[1].out = << >>

\* readSHT31 has returned failure for a response whose humidity word was
\* changed, the temperature word and both CRC bytes being as sent.
C18_Witness ==
    /\ ret # << >>
    /\ ~ret[1].ok
    /\ arg[1].fault = "byte"
    /\ arg[1].endTransmission = 0
    /\ arg[1].count = 6
    /\ crc8(arg[1].raw, 2) = arg[1].raw[3]
    /\ arg[1].raw[6] = crc8(<<190, 239>>, 2)
    /\ arg[1].raw[4] = 190
    /\ arg[1].raw[5] # 239

\* C19: humToTicks of a humidity below 0 is humToTicks(0) and of one above
\* 100 is humToTicks(100); tempToTicks of a temperature below -45 is
\* tempToTicks(-45) and of one above 130 is tempToTicks(130); every call
\* returns, and what it returns lies in 0..65535.
C19_TicksClamped ==
    /\ [](ret # << >> =>
            /\ ret[1].ticks \in 0..65535
            /\ (ret[1].fn = "humToTicks" /\ ~arg[1].nan) =>
                  /\ arg[1].v < 0 => ret[1].ticks = 0
                  /\ arg[1].v > 1000 => ret[1].ticks = 65535
                  /\ arg[1].v = 0 => ret[1].ticks = 0
                  /\ arg[1].v = 1000 => ret[1].ticks = 65535
            /\ (ret[1].fn = "tempToTicks" /\ ~arg[1].nan) =>
                  /\ arg[1].v < -450 => ret[1].ticks = 0
                  /\ arg[1].v > 1300 => ret[1].ticks = 65535
                  /\ arg[1].v = -450 => ret[1].ticks = 0
                  /\ arg[1].v = 1300 => ret[1].ticks = 65535)
    /\ [](ret = << >> => ENABLED HumToTicksCall /\ ENABLED TempToTicksCall)

\* humToTicks has returned 65535 for a humidity of 120.5 %.
C19_Witness ==
    /\ arg = << [nan |-> FALSE, v |-> 1205] >>
    /\ ret = << [fn |-> "humToTicks", ticks |-> 65535] >>

\* A call of readPMSFrame has just returned a reading.
PMSAccepts == Len(pmsSerial') < Len(pmsSerial) /\ pmsRet'[1].ok

\* C12: readPMSFrame returns a reading only when the bytes it took from the
\* buffer end in 0x42 0x4D, a declared length of 28, 26 further bytes and a
\* big-endian 16-bit field that is the sum, modulo 2^16, of the 30 bytes from
\* the header on; the reading is made of bytes 10 to 15 after the header's
\* first byte.
C12_AcceptsOnlyValidFrame ==
    [][ PMSAccepts =>
          \E i \in 1..(Len(pmsSerial) - 31) :
             /\ pmsSerial[i] = 66
             /\ pmsSerial[i + 1] = 77
             /\ pmsSerial[i + 2] * 256 + pmsSerial[i + 3] = 28
             /\ SumBytes(SubSeq(pmsSerial, i, i + 29)) % 65536
                   = pmsSerial[i + 30] * 256 + pmsSerial[i + 31]
             /\ pmsSerial' = SubSeq(pmsSerial, i + 32, Len(pmsSerial))
             /\ pmsRet'[1].out =
                   << [ pm1_0 |-> pmsSerial[i + 10] * 256 + pmsSerial[i + 11],
                        pm2_5 |-> pmsSerial[i + 12] * 256 + pmsSerial[i + 13],
                        pm10  |-> pmsSerial[i + 14] * 256 + pmsSerial[i + 15] ] >>
      ]_vars

\* readPMSFrame has returned the reading 300 / 8 / 11 of a frame that came
\* after three bytes of line noise.
C12_Witness ==
    /\ pmsRet = << [ok |-> TRUE, out |-> <<[pm1_0 |-> 300, pm2_5 |-> 8, pm10 |-> 11]>>,
                    why |-> "ok"] >>
    /\ pmsHist.garbage = <<7, 66, 7>>
    /\ pmsHist.kind = "valid"

\* C13: a frame that readPMSFrame accepts as sent is rejected by every call
\* once one byte of its checksum field has been changed.
C13_ChecksumMutationRejected ==
    (pmsHist.kind = "mutated") =>
        /\ readPMSFrame(pmsHist.frame).ok
        /\ ~pmsHist.accepted
        /\ (pmsRet # << >>) => ~pmsRet[1].ok

\* A frame whose checksum field was changed has failed the checksum test.
C13_Witness ==
    /\ pmsHist.kind = "mutated"
    /\ pmsHist.garbage = << >>
    /\ pmsRet # << >>
    /\ pmsRet[1].why = "checksum"

\* C14: when garbage followed by a complete valid frame is in the buffer, a
\* call of readPMSFrame returns that frame's reading (no call was made
\* before the last byte arrived).
C14_FrameAfterGarbageDecoded ==
    (pmsHist.kind = "valid" /\ ~pmsHist.early /\ pmsHist.late)
        => pmsHist.accepted

\* C15: a valid frame on whose header a call gave up for want of bytes, and
\* which has arrived in full since, is returned by a later call (the bytes
\* before it hold no header).
C15_PartialFrameNotLost ==
    ( /\ pmsHist.kind = "valid"
      /\ ~HasHeader(pmsHist.garbage)
      /\ pmsHist.partial
      /\ pmsHist.late )
        => pmsHist.accepted

\* C16: while the sensor keeps sending valid frames, a call of readPMSFrame
\* that rejected is followed, sooner or later, by one that returns a reading.
C16_DesyncHeals ==
    (pmsRet # << >> /\ ~pmsRet[1].ok) ~> (pmsRet # << >> /\ pmsRet[1].ok)

\* C27: sampleCount goes up by one at the end of every short tick, whatever
\* the three readers returned, and nowhere else; a sum changes only in the
\* step of its own reader and only when that reader succeeded; so the
\* sample_count given to the client and posted is the number of short
\* ticks since the last reset.
C27_CounterCountsShortTicks ==
    /\ [](sampleCount = win.n)
    /\ []((pc \in {"send", "reset"}) => (avg.sampleCount = win.n))
    /\ []((pc = "reset" /\ posted # << >>) => (posted[1].sample_count = win.n))
    /\ [][ /\ (pc = "pms") => (sampleCount' = sampleCount + 1)
           /\ (pc \in {"loop", "sht31", "sgp40", "avg", "send"}) =>
                 (sampleCount' = sampleCount)
           /\ (tempSum' # tempSum \/ humiditySum' # humiditySum) =>
                 (pc = "reset" \/ (pc = "sht31" /\ rFilled'))
           /\ (vocIndexSum' # vocIndexSum \/ rawVocSum' # rawVocSum) =>
                 (pc = "reset" \/ (pc = "sgp40" /\ vocFilled'))
           /\ (pm1_0Sum' # pm1_0Sum \/ pm2_5Sum' # pm2_5Sum \/ pm10Sum' # pm10Sum) =>
                 (pc = "reset" \/ (pc = "pms" /\ win'.pm = win.pm + 1))
         ]_vars

\* A body with sample_count 2 has been posted for a window of two short
\* ticks in which no reader succeeded.
C27_Witness ==
    /\ pc = "reset"
    /\ posted # << >>
    /\ posted[1].sample_count = 2
    /\ win.n = 2
    /\ win.th = 0
    /\ win.gas = 0
    /\ win.pm = 0

\* C28: a short tick whose readPMSFrame returns false leaves the three
\* particulate sums as they were, one whose readPMSFrame returns true adds
\* the frame's values to them; both can happen whatever readSHT31 and
\* readSGP40 returned in the tick, the readers before it can succeed or
\* fail whatever the particulate sums hold, and no reader's step touches
\* another reader's sums.
C28_ParticulateIndependent ==
    /\ [][ /\ (pc = "pms" /\ win'.pm = win.pm) =>
                 (pm1_0Sum' = pm1_0Sum /\ pm2_5Sum' = pm2_5Sum
                  /\ pm10Sum' = pm10Sum)
           /\ (pc = "pms" /\ win'.pm = win.pm + 1) =>
                 /\ pm1_0Sum' = pm1_0Sum + (win'.pm1_0 - win.pm1_0)
                 /\ pm2_5Sum' = pm2_5Sum + (win'.pm2_5 - win.pm2_5)
                 /\ pm10Sum' = pm10Sum + (win'.pm10 - win.pm10)
                 /\ win'.pm1_0 > win.pm1_0
           /\ (pc = "pms") =>
                 (tempSum' = tempSum /\ humiditySum' = humiditySum
                  /\ vocIndexSum' = vocIndexSum /\ rawVocSum' = rawVocSum)
           /\ (pc \in {"sht31", "sgp40"}) =>
                 (pm1_0Sum' = pm1_0Sum /\ pm2_5Sum' = pm2_5Sum
                  /\ pm10Sum' = pm10Sum)
         ]_vars
    /\ []((pc = "pms") =>
             /\ ENABLED (ShortTickPMS /\ win'.pm = win.pm + 1)
             /\ ENABLED (ShortTickPMS /\ win'.pm = win.pm))
    /\ []((pc = "sht31") =>
             /\ ENABLED (ShortTickSHT31 /\ rFilled')
             /\ ENABLED (ShortTickSHT31 /\ ~rFilled'))
    /\ []((pc = "sgp40") =>
             /\ ENABLED (ShortTickSGP40 /\ vocFilled')
             /\ ENABLED (ShortTickSGP40 /\ ~vocFilled'))

\* A short tick in which readSHT31 and readSGP40 failed and readPMSFrame
\* returned a frame is over: only the particulate sums have grown.
C28_Witness ==
    /\ pc = "avg"
    /\ ~rFilled
    /\ ~vocFilled
    /\ win.n = 1
    /\ win.pm = 1
    /\ pm1_0Sum = 5
    /\ pm2_5Sum = 8
    /\ pm10Sum = 11
    /\ tempSum = 0
    /\ rawVocSum = 0

ClientReportsFailure ==
    ClientLog \in {"WiFi not connected!", "Error sending data: "}

\* C24: when the client returns, it reports a failure exactly when the link
\* was down, the POST did not get through, or the endpoint answered with an
\* error status; it reports success only for a POST the endpoint accepted.
C24_OutcomeFromStatus ==
    (pc = "reset") => (ClientReportsFailure <=> SendFailed)

C23_NothingIsFatal ==
    /\ []<>(pc = "loop")
    /\ []<>(pc = "sht31" /\ cadence.shortFired)
    /\ []<>(pc = "send" /\ cadence.longFired)
    /\ (pc = "avg" /\ win.n > 0 /\ win.th = 0 /\ win.gas = 0 /\ win.pm = 0)
          ~> (pc = "send" /\ avg.sampleCount > 0)
    /\ (pc = "reset" /\ SendFailed)
          ~> (pc = "send" /\ avg.sampleCount > 0 /\ lastOutcome = "failed")

\* After a window whose send failed, the next window's aggregate is with
\* the client although no reader answered in it.
C23_Witness ==
    /\ pc = "send"
    /\ lastOutcome = "failed"
    /\ avg.sampleCount = 1
    /\ win.th = 0
    /\ win.gas = 0
    /\ win.pm = 0

\* C21: every body the device posts holds all eight fields, so the
\* ingestion worker's destructuring and missing-field check let it through
\* and the worker answers 201 unless the INSERT itself fails.
C21_DeviceBodyPassesFieldCheck ==
    \A i \in DOMAIN posted :
        /\ DOMAIN posted[i] = RequiredFields
        /\ ~MissingField(JsonParse(posted[i]))
        /\ IngestOutcome([worker |-> "ingest", method |-> "POST",
                          body |-> JsonParse(posted[i]),
                          auth |-> [present |-> FALSE]], FALSE).status = 201

\* The device has posted a body.
C21_Witness ==
    /\ pc = "reset"
    /\ Len(posted) = 1
    /\ posted[1].sample_count = 2

\* A step in which one of the two workers answers a request.
IsFetchStep ==
    /\ serverNow' = serverNow
    /\ request' # << >>
    /\ request'[1].worker \in {"ingest", "dashboard"}

\* A step in which the retention job runs.
IsScheduledStep ==
    /\ serverNow' = serverNow
    /\ request' # << >>
    /\ request'[1].worker = "scheduled"

\* C22: the ingestion worker inserts exactly one row, stamped with its own
\* clock, and answers 201 for a POST whose body is valid JSON with all eight
\* fields (unless the INSERT fails); it answers every other request with a
\* status 4xx and inserts nothing.
C22_StoresOnlyValidPosts ==
    [][ IsFetchStep /\ request'[1].worker = "ingest" =>
          LET req == request'[1]
              valid == /\ req.method = "POST"
                       /\ req.body.kind = "object"
                       /\ req.body.fields = RequiredFields
          IN  IF valid
                 THEN \/ /\ response'[1].status = 201
                         /\ db' = Append(db, [timestamp |->
                                                ServerDates[serverNow]])
                      \/ /\ response'[1].status = 500
                         /\ db' = db
                 ELSE /\ response'[1].status \in 400..499
                      /\ db' = db ]_vars

\* The request carries a token that verifies and has not expired.
HasValidToken(req) == req.auth.present /\ verifyToken(req.auth, serverNow)

\* C25: a request without a token, or with a token that does not verify or
\* has expired, reads no stored sensor data and writes no sensor record,
\* whichever worker it goes to.
C25_EndpointsRequireToken ==
    [][ IsFetchStep /\ ~HasValidToken(request'[1]) =>
          /\ db' = db
          /\ ~response'[1].read ]_vars

\* The day n calendar months after a date, 0 <= n <= 12: the same day of
\* the month, or the month's last day when it is shorter.
CalendarMonthsAfter(date, n) ==
    LET mi == (date.m - 1) + n
        y2 == IF mi >= 12 THEN date.y + 1 ELSE date.y
        m2 == (IF mi >= 12 THEN mi - 12 ELSE mi) + 1
        dim == DaysInMonth(y2, m2)
    IN  [y |-> y2, m |-> m2, d |-> IF date.d <= dim THEN date.d ELSE dim]

\* The row was written more than two months before the day given.
OlderThanRetention(row, today) ==
    IsoLess(CalendarMonthsAfter(row.timestamp, 2), today)

\* C26: a run of the retention job that succeeds deletes exactly the rows
\* written more than two months before the run, so no row younger than
\* that is deleted; a run that fails leaves the table as it was.
C26_RetentionWindow ==
    [][ IsScheduledStep =>
          IF response'[1].success
             THEN db' = SelectSeq(db, LAMBDA row :
                          ~OlderThanRetention(row, ServerDates[serverNow]))
             ELSE db' = db ]_vars

\* C34: within a window every integer accumulator holds the mathematical
\* sum of the values added to it, and the raw_voc mean handed to the client
\* is the mean of the raw gas ticks read.
C34_NoAccumulatorWraps ==
    /\ rawVocSum = win.rawVoc
    /\ vocIndexSum = win.vocIndex
    /\ pm1_0Sum = win.pm1_0
    /\ pm2_5Sum = win.pm2_5
    /\ pm10Sum = win.pm10
    /\ (pc = "send" /\ win.gas = win.n) =>
           avg.avgRawVoc = win.rawVoc \div win.n

\* C35 as stated: in every state, a sample count of zero goes with seven
\* sums of zero.
C35_ZeroCountZeroSums == (sampleCount = 0) => AllZero

\* C35: outside the body of the short tick (where the sums are added to
\* before the count), a sample count of zero goes with seven sums of zero
\* and an empty window, so a long tick that finds the count zero has
\* nothing to discard or to carry over.
C35_ZeroCountZeroSumsBetweenTicks ==
    (pc \in {"loop", "sht31", "avg", "send", "reset"} /\ sampleCount = 0) =>
        /\ AllZero
        /\ win = EmptyWindow

\* The long-tick test is reached with a count of zero after a window was
\* sent and reset.
C35_Witness ==
    /\ pc = "avg"
    /\ sampleCount = 0
    /\ lastOutcome # "none"
    /\ AllZero

\* C36: in an iteration in which both ticks fire, the means are taken after
\* the short tick has added its readings and counted its sample: the
\* aggregate handed to the client is that of the window including this
\* sample, and the window that follows starts empty.
C36_SampleCountedBeforeMeans ==
    /\ []((pc = "send" /\ cadence.shortFired /\ cadence.longFired) =>
            /\ avg.sampleCount = win.n
            /\ win.n >= 1
            /\ avg.avgTemp = FloatDiv(win.temp, win.n)
            /\ avg.avgHumidity = FloatDiv(win.hum, win.n)
            /\ avg.avgVocIndex = win.vocIndex \div win.n
            /\ avg.avgPM2_5 = win.pm2_5 \div win.n)
    /\ [][ (pc = "reset" /\ cadence.shortFired) =>
             (win' = EmptyWindow /\ sampleCount' = 0 /\ tempSum' = 0) ]_vars

\* Both ticks fire in the first iteration that comes 60 s after boot: the
\* aggregate is the one sample just taken.
C36_Witness ==
    /\ pc = "send"
    /\ cadence.shortFired
    /\ cadence.longFired
    /\ cadence.short = AVERAGE_INTERVAL
    /\ win.n = 1
    /\ win.th = 1
    /\ avg.sampleCount = 1
    /\ avg.avgTemp = FloatDiv(74, 1)

\* millis() has wrapped to a small value while the timestamp still holds a
\* value from before the wrap.
WrappedSince(stamp) ==
    /\ stamp.hi = U16Mod - 1
    /\ currentMillis.hi = 0

\* C37: while millis() has wrapped and a timer's timestamp has not, the
\* unsigned difference the timer tests is the time that has really passed
\* since it fired, so the short tick and the long tick fire then exactly
\* when their period has passed: neither is held back until the counter
\* catches up with the timestamp, neither fires early.
C37_CadenceAcrossWrap ==
    /\ []((pc = "avg" /\ WrappedSince(lastAverageTime)) =>
            ULongSub(currentMillis, lastAverageTime) = ULong(cadence.long))
    /\ [][ (pc = "avg" /\ WrappedSince(lastAverageTime)) =>
             /\ (pc' = "send") <=> (cadence.long >= AVERAGE_INTERVAL)
             /\ cadence'.longFired <=> (cadence.long >= AVERAGE_INTERVAL) ]_vars
    /\ [][ (pc = "loop" /\ lastSampleTime.hi = U16Mod - 1
                        /\ currentMillis'.hi = 0) =>
             (pc' = "sht31") <=> (cadence'.short >= SAMPLE_INTERVAL) ]_vars

\* The long tick fires 64999 ms after the last one, at millis() = 4999
\* after the wrap, with lastAverageTime still at 2^32 - 60000.
C37_Witness ==
    /\ pc = "send"
    /\ WrappedSince(lastAverageTime)
    /\ currentMillis = ULong(4999)
    /\ cadence.longFired
    /\ cadence.long = 64999
    /\ cadence.shortFired

\* Where the first HEADER_H HEADER_L of a byte sequence begins, 0 when it
\* has none.
FirstHeaderAt(bytes) ==
    IF HasHeader(bytes)
       THEN CHOOSE i \in 1..(Len(bytes) - 1) :
               /\ bytes[i] = HEADER_H /\ bytes[i + 1] = HEADER_L
               /\ \A j \in 1..(i - 1) :
                     ~(bytes[j] = HEADER_H /\ bytes[j + 1] = HEADER_L)
       ELSE 0

\* The bytes the header scan takes from a buffer: up to and including the
\* first header, or all but the last byte when there is none.
ScannedBytes(bytes) ==
    IF FirstHeaderAt(bytes) > 0 THEN FirstHeaderAt(bytes) + 1
    ELSE IF Len(bytes) = 0 THEN 0
    ELSE Len(bytes) - 1

\* C38: a call of readPMSFrame ends; it leaves a suffix of the buffer it
\* found, having taken the scanned bytes and, after a header, either the
\* 30 bytes that follow or nothing; the scan loop runs at most once per
\* byte it takes.
C38_CallConsumesBoundedBytes ==
    [][ (pmsSensor' = pmsSensor) =>
          LET n == Len(pmsSerial)
              k == n - Len(pmsSerial')
          IN  /\ pmsRet' # << >>
              /\ k >= 0
              /\ pmsSerial' = SubSeq(pmsSerial, k + 1, n)
              /\ k \in {ScannedBytes(pmsSerial),
                         ScannedBytes(pmsSerial) + FRAME_LEN_BYTES - 2}
              /\ (k > ScannedBytes(pmsSerial)) => FirstHeaderAt(pmsSerial) > 0
              /\ ScanIterations(pmsSerial) <= ScannedBytes(pmsSerial) ]_vars

\* A call has scanned over three bytes of noise with a lone HEADER_H in
\* them, found the header and taken the 30 bytes after it.
C38_Witness ==
    /\ pmsRet # << >>
    /\ pmsRet[1].ok
    /\ pmsHist.garbage = <<7, HEADER_H, 7>>
    /\ pmsSerial = << >>
    /\ pmsSensor = << >>

\* C31: a short tick's call of readPMSFrame takes exactly one frame from a
\* buffer that holds whole frames and none from one that does not; the
\* frame it returns is the one that arrived first, which is older than the
\* newest one when two or more are buffered; and after a tick before which
\* the sensor sent two or more frames, at least one more frame is left
\* unread than the tick before left.
C31_OldestFrameBacklogGrows ==
    [][ (pmsHist'.sent = pmsHist.sent) =>
          /\ pmsRet' # << >>
          /\ pmsRet'[1].ok <=> (pmsHist.queue # << >>)
          /\ (pmsHist.queue # << >>) =>
                /\ pmsRet'[1].out[1].pm1_0 = Head(pmsHist.queue)
                /\ Len(pmsSerial') = FRAME_LEN_BYTES * (Len(pmsHist.queue) - 1)
                /\ pmsSerial' = SubSeq(pmsSerial,
                                       Len(pmsSerial) - Len(pmsSerial') + 1,
                                       Len(pmsSerial))
          /\ (Len(pmsHist.queue) >= 2) =>
                pmsRet'[1].out[1].pm1_0 < pmsHist.queue[Len(pmsHist.queue)]
          /\ (pmsHist.sinceTick >= 2) =>
                Len(pmsSerial') >= (pmsHist.backlog + 1) * FRAME_LEN_BYTES ]_vars

\* Two frames came before each of two ticks: the second tick returns frame
\* 2 while frame 4 is the newest, and leaves two frames unread.
C31_Witness ==
    /\ pmsRet # << >>
    /\ pmsRet[1].ok
    /\ pmsRet[1].out[1].pm1_0 = 2
    /\ pmsHist.sent = 4
    /\ pmsHist.queue = <<3, 4>>
    /\ pmsHist.backlog = 2
    /\ Len(pmsSerial) = 2 * FRAME_LEN_BYTES

\* C32: every raw pair readSHT31 accepts decodes to a temperature between
\* -45 and 130 degrees Celsius, taken before the conversion to Fahrenheit,
\* and to a humidity between 0 and 100 %; the raw words 0 and 65535 decode
\* to the ends of the two ranges.
C32_DecodedWithinRange ==
    (Len(arg) = 1 /\ arg[1].stage = "env" /\ arg[1].filled) =>
        LET c  == CelsiusOf(arg[1].env.temperatureF)
            rh == arg[1].env.humidityRH
        IN  /\ c.den > 0 /\ rh.den > 0
            /\ -45 * c.den <= c.num /\ c.num <= 130 * c.den
            /\ 0 <= rh.num /\ rh.num <= 100 * rh.den
            /\ (arg[1].rawT = 0) <=> (c.num = -45 * c.den)
            /\ (arg[1].rawT = U16Mod - 1) <=> (c.num = 130 * c.den)
            /\ (arg[1].rawRH = 0) <=> (rh.num = 0)
            /\ (arg[1].rawRH = U16Mod - 1) <=> (rh.num = 100 * rh.den)

C32_Witness ==
    /\ Len(arg) = 1 /\ arg[1].stage = "env" /\ arg[1].filled
    /\ arg[1].rawT = U16Mod - 1 /\ arg[1].rawRH = 0
    /\ CelsiusOf(arg[1].env.temperatureF).num
           = 130 * CelsiusOf(arg[1].env.temperatureF).den
    /\ arg[1].env.humidityRH.num = 0

\* C33: the frame readSGP40 writes has eight bytes: 0x26, 0x0F, the
\* humidity word high byte first and its CRC-8, the temperature word high
\* byte first and its CRC-8; and when the write is not acknowledged, fewer
\* than three bytes are read or the CRC of the response does not match, the
\* call fails and leaves vocTicks unwritten.
C33_GasFrameAndFailures ==
    (Len(ret) = 1 /\ Len(arg) = 1 /\ arg[1].stage = "env") =>
        LET out == ret[1]
            f   == out.frame
            bus == arg[1].bus
        IN  /\ Len(f) = 8
            /\ \A i \in 1..8 : f[i] \in Bytes
            /\ f[1] = 38 /\ f[2] = 15
            /\ f[3] * U8Mod + f[4] = out.h
            /\ f[5] = crc8(<<f[3], f[4]>>, 2)
            /\ f[6] * U8Mod + f[7] = out.t
            /\ f[8] = crc8(<<f[6], f[7]>>, 2)
            /\ ( \/ bus.endTransmission # 0
                 \/ bus.count < 3
                 \/ crc8(bus.res, 2) # bus.res[3] )
                   => (~out.ok /\ out.vocTicks = << >>)
            /\ out.ok => out.vocTicks = << bus.res[1] * U8Mod + bus.res[2] >>

C33_Witness ==
    /\ Len(ret) = 1 /\ Len(arg) = 1 /\ arg[1].stage = "env"
    /\ arg[1].fault = "short"
    /\ arg[1].bus.count = 2
    /\ ~ret[1].ok /\ ret[1].vocTicks = << >>
    /\ Len(ret[1].frame) = 8
    /\ arg[1].filled /\ arg[1].rawT = 48879 /\ ret[1].t = 48879

====
